---------------------------- MODULE Spec2Model ----------------------------
(***************************************************************************)
(* Model of the schema-adaptive synchronization layer of the estate-admin  *)
(* dashboard (the App component): error classification, the fallback write *)
(* executor, the entity store, the task normalizer and the property table  *)
(* resolver.                                                               *)
(*                                                                         *)
(* JavaScript values are modelled as strings; "undefined", "null" and ""   *)
(* are the falsy ones.  A remote row is a record that may lack any key:    *)
(* reading a missing key gives "undefined", as in JavaScript.              *)
(***************************************************************************)
EXTENDS Integers, Sequences, FiniteSets, TLC

VARIABLES
  exec,           \* one invocation of insertWithFallback / updateWithFallback
  coll,           \* the six useState collections: entity -> sequence of records
  remote,         \* the remote tables: table -> sequence of rows
  ops,            \* handlers suspended at an await (sequence, in issue order)
  propertyTable,  \* useState<'listings' | 'properties'>('listings')
  loading,        \* useState(true)
  loads,          \* fetchAllData invocations suspended at an await
  nextId,         \* the remote store's id generator
  last,           \* history: the step just taken (what resolved, and how)
  resolved,       \* history: the table the resolver selected first, or "none"
  session,        \* useState<Session | null>(null): "none" or the signed-in user
  role,           \* useLocalStorage<UserRole>('eburon_role', 'admin')
  activeView,     \* useState<ViewState>('dashboard')
  settings,       \* useLocalStorage<AppSettings>('eburon_settings', defaultSettings)
  storage,        \* window.localStorage: key -> serialized value, or "absent"
  nonce,          \* dataReloadNonce, as the number of triggerDataReload calls
  gateDue,        \* the role gate effect is scheduled (role or activeView changed)
  sync,           \* the role sync suspended at its lookups, or idle
  mounted,        \* the mount effects have run
  auth            \* the auth listener effect: sessionLoading and the getSession call of initSession

\* the variables of the session shell: role gate, role sync and cache-version guard
shellVars == <<session, role, activeView, settings, storage, nonce, gateDue, sync, mounted, auth>>

vars == <<exec, coll, remote, nextId, ops, propertyTable, loading, loads, last, resolved, shellVars>>

\* the entity store's variables, which the executor machine leaves alone
storeVars == <<coll, remote, nextId, ops, propertyTable, loading, loads, last, resolved>>
storeRest == <<coll, remote, nextId, ops, propertyTable, loading, loads, resolved>>

-----------------------------------------------------------------------------
(* JavaScript value helpers *)

Undefined == "undefined"
Null == "null"

\* row.key on an untyped row
Get(row, key) == IF key \in DOMAIN row THEN row[key] ELSE Undefined

\* JavaScript truthiness of a modelled value
Truthy(v) == v \notin {Undefined, Null, "", "false"}

\* a || b
Or(a, b) == IF Truthy(a) THEN a ELSE b

\* a ?? b
Coalesce(a, b) == IF a \in {Undefined, Null} THEN b ELSE a

\* { ...a, ...b }
Spread(a, b) == [k \in DOMAIN a \cup DOMAIN b |-> IF k \in DOMAIN b THEN b[k] ELSE a[k]]

-----------------------------------------------------------------------------
(* Remote errors.  A message is modelled by which of the substrings the    *)
(* classifiers look for it contains: "lower" when the substring occurs in  *)
(* lower case, "mixed" when it occurs only with some upper-case letter.    *)

Tokens == {"schema cache", "could not find", "column", "does not exist", "relation"}
SchemaTokens == {"schema cache", "could not find", "column", "does not exist"}
Presence == {"absent", "lower", "mixed"}

EmptyText == [t \in Tokens |-> "absent"]

\* all texts that mention only tokens of S
TextsOver(S) == { [t \in Tokens |-> IF t \in S THEN f[t] ELSE "absent"] : f \in [S -> Presence] }

Text(S) == [t \in Tokens |-> IF t \in S THEN "lower" ELSE "absent"]

\* String.prototype.toLowerCase
toLowerCase(text) == [t \in Tokens |-> IF text[t] = "mixed" THEN "lower" ELSE text[t]]

\* String.prototype.includes with a lower-case needle (case-sensitive)
includes(text, t) == text[t] = "lower"

NoError == [isNull |-> TRUE, message |-> EmptyText, details |-> EmptyText]
Err(m, d) == [isNull |-> FALSE, message |-> m, details |-> d]

isSchemaCacheColumnError(error) ==
  LET msg == toLowerCase(error.message) IN
    \/ (includes(msg, "schema cache") /\ includes(msg, "could not find"))
    \/ (includes(msg, "column") /\ includes(msg, "does not exist"))
    \/ (includes(msg, "could not find") /\ includes(msg, "column"))

isMissingRelation(error) ==
  LET msg == toLowerCase(error.message)
      details == toLowerCase(error.details) IN
    \/ (includes(msg, "relation") /\ includes(msg, "does not exist"))
    \/ (includes(details, "relation") /\ includes(details, "does not exist"))

-----------------------------------------------------------------------------
(* Fallback write executor *)

\* the data of a response that carries no row
NullRow == [null |-> "null"]

\* row ?? null
CoalesceRow(row) == IF row = NullRow THEN NullRow ELSE row

\* mutant: a schema-cache-miss on the first insert is returned, not retried
insertAfterFirst_NoRetry(first) ==
  IF first.error.isNull
    THEN [retry |-> FALSE, ret |-> [error |-> NoError, data |-> first.data]]
    ELSE [retry |-> FALSE, ret |-> [error |-> first.error, data |-> NullRow]]

\* What insertWithFallback does when the first insert has resolved: either it
\* returns (retry = FALSE, ret is the value returned) or it sends the fallback.
insertAfterFirst(first) ==
  IF first.error.isNull
    THEN [retry |-> FALSE, ret |-> [error |-> NoError, data |-> first.data]]
    ELSE IF ~isSchemaCacheColumnError(first.error)
      THEN [retry |-> FALSE, ret |-> [error |-> first.error, data |-> NullRow]]
      ELSE [retry |-> TRUE, ret |-> [error |-> NoError, data |-> NullRow]]

\* The value insertWithFallback returns when the second insert has resolved.
insertAfterSecond(second) == [error |-> second.error, data |-> CoalesceRow(second.data)]

\* mutant: every failed first update is retried with the fallback mapping
updateAfterFirst_AlwaysRetry(first) ==
  IF first.error.isNull
    THEN [retry |-> FALSE, ret |-> [error |-> NoError, data |-> NullRow]]
    ELSE [retry |-> TRUE, ret |-> [error |-> NoError, data |-> NullRow]]

\* updateWithFallback, first update resolved (the result has no data: NullRow)
updateAfterFirst(first) ==
  IF first.error.isNull
    THEN [retry |-> FALSE, ret |-> [error |-> NoError, data |-> NullRow]]
    ELSE IF ~isSchemaCacheColumnError(first.error)
      THEN [retry |-> FALSE, ret |-> [error |-> first.error, data |-> NullRow]]
      ELSE [retry |-> TRUE, ret |-> [error |-> NoError, data |-> NullRow]]

\* updateWithFallback, second update resolved
updateAfterSecond(second) == [error |-> second.error, data |-> NullRow]

afterFirst(fn, first) == IF fn = "insert" THEN insertAfterFirst(first) ELSE updateAfterFirst(first)
afterSecond(fn, second) == IF fn = "insert" THEN insertAfterSecond(second) ELSE updateAfterSecond(second)

-----------------------------------------------------------------------------
(* What the remote table client can answer *)

\* every error whose message and details mention the schema tokens in any way
SchemaErrors == { Err(m, d) : m \in TextsOver(SchemaTokens), d \in TextsOver(SchemaTokens) }

\* a few errors of every class, used where the whole space is not needed
SchemaCacheMiss == Err(Text({"could not find", "column", "schema cache"}), EmptyText)
ColumnMissing   == Err(Text({"column", "does not exist"}), EmptyText)
NetworkError    == Err(EmptyText, EmptyText)
RelationMissing == Err(Text({"relation", "does not exist"}), EmptyText)
RelationMissingInDetails == Err(EmptyText, Text({"relation", "does not exist"}))
SampleErrors == {SchemaCacheMiss, ColumnMissing, NetworkError, RelationMissing}

\* rows an insert may return in the executor machine
ExecRows == {[id |-> "1", name |-> "a"]}

\* answers to .insert(payload).select().single() and to .update(payload).eq('id', id)
WriteResponses(fn, errors) ==
  { [error |-> e, data |-> NullRow] : e \in errors } \cup
  { [error |-> NoError, data |-> r] : r \in (IF fn = "insert" THEN ExecRows ELSE {NullRow}) }

-----------------------------------------------------------------------------
(* Executor machine: one invocation of insertWithFallback or               *)
(* updateWithFallback against a remote that answers anything.              *)

NoResponse == [error |-> NoError, data |-> NullRow]

ExecInit ==
  exec = [first |-> NoResponse, ret |-> NoResponse, second |-> NoResponse,
          fn |-> "insert", pc |-> "idle", calls |-> <<>>]

\* the caller invokes the executor: the first write carries the primary mapping
ExecCall(fn) ==
  /\ exec.pc = "idle"
  /\ exec' = [exec EXCEPT !.pc = "first", !.fn = fn, !.calls = <<"primary">>]
  /\ UNCHANGED <<storeVars, shellVars>>

\* `first` resolves
ExecFirstResolves(res) ==
  /\ exec.pc = "first"
  /\ LET step == afterFirst(exec.fn, res) IN
       IF step.retry
         THEN exec' = [exec EXCEPT !.pc = "second", !.first = res,
                                   !.calls = Append(@, "fallback")]
         ELSE exec' = [exec EXCEPT !.pc = "done", !.first = res, !.ret = step.ret]
  /\ UNCHANGED <<storeVars, shellVars>>

\* `second` resolves
ExecSecondResolves(res) ==
  /\ exec.pc = "second"
  /\ exec' = [exec EXCEPT !.pc = "done", !.second = res, !.ret = afterSecond(exec.fn, res)]
  /\ UNCHANGED <<storeVars, shellVars>>

ExecNext ==
  \/ \E fn \in {"insert", "update"} : ExecCall(fn)
  \/ exec.pc = "first" /\ \E res \in WriteResponses(exec.fn, SchemaErrors) : ExecFirstResolves(res)
  \/ exec.pc = "second" /\ \E res \in WriteResponses(exec.fn, SampleErrors) : ExecSecondResolves(res)

-----------------------------------------------------------------------------
(* Row normalizers *)

\* new Date().toISOString(): the time of the call
NowIso == "now"

\* Boolean(v), as the strings "true" / "false"
ToBoolean(v) == IF Truthy(v) THEN "true" ELSE "false"

\* !v
Not(v) == IF Truthy(v) THEN "false" ELSE "true"

\* Number(v) || 0 on the numerals the model uses ("0" is the number zero)
Numerals == {"0", "100", "250"}
NumberOrZero(v) == IF v \in Numerals THEN v ELSE "0"

Or3(a, b, c) == Or(Or(a, b), c)

mapLeadRow(row) ==
  [id |-> Get(row, "id"),
   name |-> Get(row, "name"),
   email |-> Get(row, "email"),
   phone |-> Coalesce(Get(row, "phone"), ""),
   status |-> Coalesce(Get(row, "status"), "new"),
   source |-> Coalesce(Get(row, "source"), ""),
   notes |-> Coalesce(Get(row, "notes"), ""),
   lastContact |-> Or(Or3(Get(row, "lastContact"), Get(row, "lastcontact"), Get(row, "last_contact")),
                      Or(Or3(Get(row, "createdAt"), Get(row, "createdat"), Get(row, "created_at")), NowIso)),
   createdAt |-> Or(Or3(Get(row, "createdAt"), Get(row, "createdat"), Get(row, "created_at")), NowIso)]

mapTaskRow(row) ==
  [id |-> Get(row, "id"),
   title |-> Get(row, "title"),
   description |-> Coalesce(Get(row, "description"), ""),
   dueDate |-> Or(Or3(Get(row, "dueDate"), Get(row, "duedate"), Get(row, "due_date")), NowIso),
   priority |-> Coalesce(Get(row, "priority"), "medium"),
   category |-> Coalesce(Get(row, "category"), "General"),
   completed |-> ToBoolean(Get(row, "completed")),
   completedAt |-> Or3(Get(row, "completedAt"), Get(row, "completedat"), Get(row, "completed_at")),
   createdAt |-> Or(Or3(Get(row, "createdAt"), Get(row, "createdat"), Get(row, "created_at")), NowIso)]

mapEventRow(row) ==
  [id |-> Get(row, "id"),
   title |-> Get(row, "title"),
   description |-> Coalesce(Get(row, "description"), ""),
   date |-> Get(row, "date"),
   startTime |-> Or(Or3(Get(row, "startTime"), Get(row, "starttime"), Get(row, "start_time")), "09:00"),
   endTime |-> Or(Or3(Get(row, "endTime"), Get(row, "endtime"), Get(row, "end_time")), "10:00"),
   color |-> Coalesce(Get(row, "color"), "blue"),
   duration |-> Coalesce(Get(row, "duration"), "30m"),
   createdAt |-> Or(Or3(Get(row, "createdAt"), Get(row, "createdat"), Get(row, "created_at")), NowIso)]

mapTransactionRow(row) ==
  [id |-> Get(row, "id"),
   date |-> Get(row, "date"),
   description |-> Get(row, "description"),
   type |-> Get(row, "type"),
   category |-> Coalesce(Get(row, "category"), ""),
   amount |-> NumberOrZero(Get(row, "amount")),
   method |-> Coalesce(Get(row, "method"), ""),
   reference |-> Coalesce(Get(row, "reference"), Undefined),
   createdAt |-> Or(Or3(Get(row, "createdAt"), Get(row, "createdat"), Get(row, "created_at")), NowIso)]

\* images are modelled as strings too: "[]" is the empty array (truthy)
mapListingToProperty(row) ==
  [id |-> Get(row, "id"),
   name |-> Get(row, "name"),
   address |-> Get(row, "address"),
   price |-> NumberOrZero(Get(row, "price")),
   type |-> Get(row, "type"),
   bedrooms |-> Get(row, "bedrooms"),
   bathrooms |-> Get(row, "bathrooms"),
   size |-> Get(row, "size"),
   status |-> Or(Get(row, "status"), "active"),
   images |-> Or3(Get(row, "images"), Get(row, "image_urls"), "[]"),
   energyClass |-> Coalesce(Get(row, "energy_class"), Get(row, "energyClass")),
   petsAllowed |-> Coalesce(Get(row, "pets_allowed"), Get(row, "petsAllowed")),
   coordinates |-> Get(row, "coordinates"),
   createdAt |-> Or(Or3(Get(row, "createdAt"), Get(row, "createdat"), Get(row, "created_at")), NowIso)]

\* messages are stored as they come (`newMsg as unknown as Message`)
mapMessageRow(row) == row

-----------------------------------------------------------------------------
(* Session shell: roles, views, settings and the local cache *)

Roles == {"admin", "owner", "maintenance", "renter"}
Views == {"dashboard", "inbox", "leads", "properties", "tasks", "calendar", "finance",
          "reports", "settings", "tools"}

\* mutant: the owner may see the tools view too
roleViews_OwnerTools(r) ==
  CASE r = "admin" -> <<"dashboard", "inbox", "leads", "properties", "tasks", "calendar",
                        "finance", "reports", "settings", "tools">>
    [] r = "owner" -> <<"dashboard", "properties", "finance", "inbox", "tasks", "calendar",
                        "reports", "settings", "tools">>
    [] r = "maintenance" -> <<"dashboard", "tasks", "calendar", "inbox", "settings">>
    [] OTHER -> <<"dashboard", "properties", "calendar", "inbox", "settings">>

roleViews(r) ==
  CASE r = "admin" -> <<"dashboard", "inbox", "leads", "properties", "tasks", "calendar",
                        "finance", "reports", "settings", "tools">>
    [] r = "owner" -> <<"dashboard", "properties", "finance", "inbox", "tasks", "calendar",
                        "reports", "settings">>
    [] r = "maintenance" -> <<"dashboard", "tasks", "calendar", "inbox", "settings">>
    [] OTHER -> <<"dashboard", "properties", "calendar", "inbox", "settings">>

\* list.includes(v)
includesView(list, v) == \E i \in DOMAIN list : list[i] = v

\* mutant: the gate leaves the view as it is
roleGate_NoRedirect(r, view) == view

\* The role gate effect: the view it leaves active.
roleGate(r, view) == IF ~includesView(roleViews(r), view) THEN roleViews(r)[1] ELSE view

\* the role strings a profile row or the session metadata may hold
RowRoles == {Undefined, "contractor", "manager"}
MetaRoles == {Undefined, " Owner "}

\* String(raw || '').trim().toLowerCase(), on the spellings of the role words:
\* lower case, upper case, capitalised, each also with a blank before it,
\* after it or on both sides, and on strings of blanks
Spellings(word, upper, capital) ==
  UNION { {w, " " \o w \o " ", " " \o w, w \o " "} : w \in {word, upper, capital} }

Blanks == {" ", "  "}

TrimLower(raw) ==
  CASE ~Truthy(raw) -> ""
    [] raw \in Blanks -> ""
    [] raw \in Spellings("admin", "ADMIN", "Admin") -> "admin"
    [] raw \in Spellings("broker", "BROKER", "Broker") -> "broker"
    [] raw \in Spellings("agent", "AGENT", "Agent") -> "agent"
    [] raw \in Spellings("owner", "OWNER", "Owner") -> "owner"
    [] raw \in Spellings("maintenance", "MAINTENANCE", "Maintenance") -> "maintenance"
    [] raw \in Spellings("contractor", "CONTRACTOR", "Contractor") -> "contractor"
    [] raw \in Spellings("renter", "RENTER", "Renter") -> "renter"
    [] raw \in Spellings("tenant", "TENANT", "Tenant") -> "tenant"
    [] raw \in Spellings("manager", "MANAGER", "Manager") -> "manager"
    [] OTHER -> raw

\* mutant: 'tenant' is not one of the role words
normalizeUserRole_NoTenant(raw) ==
  LET value == TrimLower(raw) IN
    IF value \in {"admin", "broker", "agent"} THEN "admin"
    ELSE IF value = "owner" THEN "owner"
    ELSE IF value \in {"maintenance", "contractor"} THEN "maintenance"
    ELSE IF value = "renter" THEN "renter"
    ELSE "admin"

normalizeUserRole(raw) ==
  LET value == TrimLower(raw) IN
    IF value \in {"admin", "broker", "agent"} THEN "admin"
    ELSE IF value = "owner" THEN "owner"
    ELSE IF value \in {"maintenance", "contractor"} THEN "maintenance"
    ELSE IF value \in {"renter", "tenant"} THEN "renter"
    ELSE "admin"

roleLabelMap(r) ==
  CASE r = "admin" -> "Broker / Agent"
    [] r = "owner" -> "Property Owner"
    [] r = "maintenance" -> "Maintenance"
    [] OTHER -> "Renter"

\* settings: the profile fields the shell writes, and the rest (the toggles,
\* language and timezone) as one value
defaultSettings ==
  [role |-> "Broker", name |-> "Laurent De Wilde", email |-> "laurent@eburon.com",
   prefs |-> "default"]

APP_CACHE_VERSION == "1"
APP_CACHE_VERSION_KEY == "eburon_cache_version"
APP_CACHE_KEYS == {"eburon_settings", "eburon_role"}
StorageKeys == APP_CACHE_KEYS \cup {APP_CACHE_VERSION_KEY}

\* window.localStorage: a key holds a value or is absent
Absent == [present |-> FALSE]
Stored(value) == [value |-> value, present |-> TRUE]
removeItem(store, key) == [store EXCEPT ![key] = Absent]
setItem(store, key, value) == [store EXCEPT ![key] = Stored(value)]

\* useLocalStorage(key, initial): the state starts from the persisted value, or
\* from initial when the key is absent; the setter writes the key through
persistedOr(store, key, initial) == IF store[key].present THEN store[key].value ELSE initial

\* the shell's state as one value: what clearAppCache and the effects work on
Shell == [role |-> role, activeView |-> activeView, settings |-> settings,
          storage |-> storage, nonce |-> nonce]

setSettings(sh, value) ==
  [sh EXCEPT !.settings = value, !.storage = setItem(sh.storage, "eburon_settings", value)]
setRole(sh, value) ==
  [sh EXCEPT !.role = value, !.storage = setItem(sh.storage, "eburon_role", value)]
setActiveView(sh, view) == [sh EXCEPT !.activeView = view]

\* the effect on [role]: the profile's role label follows the role
roleLabelEffect(sh) == setSettings(sh, [sh.settings EXCEPT !.role = roleLabelMap(sh.role)])

triggerDataReload(sh) == [sh EXCEPT !.nonce = sh.nonce + 1]

\* the call of window.localStorage that throws inside a try block, if one does
StorageFaults == {"none", "getItem", "removeItem", "setItem"}

\* clearAppCache: in the try block the cache keys are removed and the marker
\* is written, up to the call that throws; the catch block only warns; then
\* the state is reset through the setters, whatever the try block did
clearAppCache(sh, fault) ==
  LET removed == IF fault = "removeItem" THEN sh.storage
                 ELSE [k \in StorageKeys |->
                         IF k \in APP_CACHE_KEYS THEN Absent ELSE sh.storage[k]]
      written == IF fault \in {"removeItem", "setItem"} THEN removed
                 ELSE setItem(removed, APP_CACHE_VERSION_KEY, APP_CACHE_VERSION)
      tried == [sh EXCEPT !.storage = written]
  IN setActiveView(setRole(setSettings(tried, defaultSettings), "admin"), "dashboard")

\* The cache version check effect: when getItem throws, the catch block only
\* warns and neither clearAppCache nor triggerDataReload is called.
cacheVersionCheck(sh, fault) ==
  IF fault = "getItem" THEN sh
  ELSE IF sh.storage[APP_CACHE_VERSION_KEY] # Stored(APP_CACHE_VERSION)
    THEN triggerDataReload(clearAppCache(sh, fault))
    ELSE sh

(* Calls in flight: a call that is sent is served by the remote store at    *)
(* some later moment, and its answer is delivered at a moment after that.   *)

Entities == {"leads", "messages", "properties", "tasks", "events", "transactions"}
Tables == Entities \cup {"listings"}

\* the most handlers and loads that may be suspended at once
MaxOps == 2
\* the most role syncs that may be suspended at once
MaxSyncs == 1

\* the call is sent and the remote store has not served it yet
NotServed == [served |-> FALSE]

\* fetchAllData suspended at Promise.all: the five selects are sent
NewLoad == [answers |-> [t \in Tables |-> NotServed], stage |-> "all", listingsRes |-> [error |-> NoError, data |-> <<>>]]

RemoveAt(seq, i) == SubSeq(seq, 1, i - 1) \o SubSeq(seq, i + 1, Len(seq))

(* Session shell: the session, the role sync and the events *)

\* the most triggerDataReload calls of one page load
MaxReloads == 1

\* session.user.id: b@x is a second user
UserOf(email) == IF email = "b@x" THEN "u2" ELSE "u1"

NoSession == [email |-> Undefined, user |-> "none", metaRole |-> Undefined]
Session(email, metaRole) == [email |-> email, user |-> UserOf(email), metaRole |-> metaRole]
SignedIn == session.user # "none"

\* no sync is suspended, and none has ended since the session began
NoSync == [ended |-> FALSE]
SyncIdle == [running |-> <<>>, done |-> NoSync]

\* the sync effect suspended at a lookup: the role and the session of the
\* render it started in, the table and the lookup it waits for
Run(cached, s) ==
  [role |-> cached, email |-> s.email, metaRole |-> s.metaRole, table |-> "user_profiles",
   lookup |-> "byId"]

\* the answer of supabase.auth.getSession(): { data: { session }, error }
NotRead == [session |-> NoSession, failed |-> FALSE, read |-> FALSE]
Answer(held, failed) ==
  [session |-> IF failed THEN NoSession ELSE held, failed |-> failed, read |-> TRUE]

\* the gate once initSession has run to its end; the collaborator's session
\* is followed only until then
Untracked == [user |-> "untracked"]
GateOpen == [held |-> Untracked, sessionLoading |-> FALSE, fetch |-> "done", answer |-> NotRead]

\* the gate of a page that has just been constructed: sessionLoading is true,
\* and getSession, called by the mount effect, has no answer yet; held is the
\* session the collaborator holds
Pending(held) == [held |-> held, sessionLoading |-> TRUE, fetch |-> "pending", answer |-> NotRead]

\* the sessions the collaborator may hold when a page is loaded
PageSessions == {NoSession, Session("u@x", Undefined)}

\* the collaborator's session becomes s and the listener is told
Heard(s) == IF auth.fetch = "done" THEN auth ELSE [auth EXCEPT !.held = s]
Syncing == sync.running # <<>>

\* what App renders: the spinner while sessionLoading, the auth view without a
\* session, the dashboard (sidebar, header and views) with one
DashboardShown == ~auth.sessionLoading /\ SignedIn
AuthViewShown == ~auth.sessionLoading /\ ~SignedIn

\* the step just taken was a step of the shell other than the role gate
ShellStep == [type |-> "shell"]

\* the answer to supabase.from(table).select('*').eq(...).maybeSingle()
UserRow(rawRole) == [role |-> rawRole, id |-> "u1"]
LookupResponses ==
  { [error |-> NoError, data |-> UserRow(r)] : r \in RowRoles } \cup
  { [error |-> NoError, data |-> NullRow], [error |-> NetworkError, data |-> NullRow],
    [error |-> RelationMissing, data |-> NullRow] }

isMissingRelationError(error) ==
  LET msg == toLowerCase(error.message)
      details == toLowerCase(error.details) IN
    \/ (includes(msg, "relation") /\ includes(msg, "does not exist"))
    \/ (includes(details, "relation") /\ includes(details, "does not exist"))

\* fetchUserRow(table) when the lookup by id has resolved: the row it returns,
\* or the lookup by email it goes on to
afterById(byId, userEmail) ==
  IF byId.error.isNull /\ byId.data # NullRow THEN [row |-> byId.data, again |-> FALSE]
  ELSE IF ~byId.error.isNull /\ isMissingRelationError(byId.error) THEN [row |-> NullRow, again |-> FALSE]
  ELSE IF Truthy(userEmail) THEN [row |-> NullRow, again |-> TRUE]
  ELSE [row |-> NullRow, again |-> FALSE]

\* fetchUserRow(table) when the lookup by email has resolved
afterByEmail(byEmail) ==
  IF byEmail.error.isNull /\ byEmail.data # NullRow THEN byEmail.data ELSE NullRow

\* fetchUserRow(table): the row, or null
fetchUserRow(byId, byEmail, userEmail) ==
  IF afterById(byId, userEmail).again THEN afterByEmail(byEmail) ELSE afterById(byId, userEmail).row

\* mutant: the session metadata is read before the profile row
nextRole_MetaFirst(userRow, metaRoleRaw, cached) ==
  LET dbRoleRaw == IF userRow = NullRow THEN Undefined ELSE Get(userRow, "role")
  IN normalizeUserRole(Or(Or(metaRoleRaw, dbRoleRaw), cached))

\* normalizeUserRole(dbRoleRaw || metaRoleRaw || role)
nextRole(userRow, metaRoleRaw, cached) ==
  LET dbRoleRaw == IF userRow = NullRow THEN Undefined ELSE Get(userRow, "role")
  IN normalizeUserRole(Or(Or(dbRoleRaw, metaRoleRaw), cached))

\* the shell's variables take the values of sh
Apply(sh) ==
  /\ storage' = sh.storage
  /\ settings' = sh.settings
  /\ role' = sh.role
  /\ activeView' = sh.activeView
  /\ nonce' = sh.nonce
  /\ gateDue' = (gateDue \/ sh.role # role \/ sh.activeView # activeView)

\* the effect on [role] runs when the role has changed
afterRole(sh) == IF sh.role # role THEN roleLabelEffect(sh) ELSE sh

\* The fetch effect, on [session, sessionLoading, dataReloadNonce], in the
\* render the step leads to: nothing while sessionLoading, setLoading(false)
\* without a session, and with one fetchAllData up to its first await:
\* setLoading(true), then the five selects are sent.
FetchEffect(sessionAfter, sessionLoadingAfter) ==
  IF sessionLoadingAfter THEN UNCHANGED <<loading, loads>>
  ELSE IF sessionAfter.user = "none" THEN loading' = FALSE /\ loads' = loads
  ELSE /\ Len(ops) + Len(loads) < MaxOps
       /\ loading' = TRUE
       /\ loads' = Append(loads, NewLoad)

\* The sync effect, on [session?.user?.id]: it returns at once without a
\* session, and is suspended at its first lookup with one.
SyncEffect(sessionAfter) ==
  IF sessionAfter.user = session.user THEN sync' = sync
  ELSE IF sessionAfter.user = "none" THEN sync' = [sync EXCEPT !.done = NoSync]
  ELSE /\ Len(sync.running) < MaxSyncs
       /\ sync' = [running |-> Append(sync.running, Run(role, sessionAfter)), done |-> NoSync]

\* the mount effects: the cache version check, then the role label and the gate
Startup(fault) ==
  /\ ~mounted
  /\ mounted' = TRUE
  /\ storage' = roleLabelEffect(cacheVersionCheck(Shell, fault)).storage
  /\ settings' = roleLabelEffect(cacheVersionCheck(Shell, fault)).settings
  /\ role' = cacheVersionCheck(Shell, fault).role
  /\ activeView' = cacheVersionCheck(Shell, fault).activeView
  /\ nonce' = cacheVersionCheck(Shell, fault).nonce
  /\ gateDue' = TRUE
  /\ last' = [type |-> "startup", fault |-> fault,
              again |-> (last.type = "restart"),
              matched |-> (storage[APP_CACHE_VERSION_KEY] = Stored(APP_CACHE_VERSION))]
  /\ UNCHANGED <<storeRest, exec, session, auth, sync>>

\* the role gate effect runs; it runs again if it has changed the view
RoleGate ==
  /\ mounted /\ gateDue
  /\ activeView' = roleGate(role, activeView)
  /\ gateDue' = (roleGate(role, activeView) # activeView)
  /\ last' = [type |-> "gate", from |-> activeView]
  /\ UNCHANGED <<storeRest, exec, session, auth, role, settings, storage, nonce, sync, mounted>>

\* Sidebar, header and dashboard: setActiveView(view)
Navigate(view) ==
  /\ mounted /\ ~gateDue /\ DashboardShown
  /\ Apply(setActiveView(Shell, view))
  /\ last' = ShellStep
  /\ UNCHANGED <<storeRest, exec, session, auth, sync, mounted>>

\* AuthView: onRoleSelect={setRole}
SelectRole(r) ==
  /\ mounted /\ ~gateDue /\ AuthViewShown
  /\ Apply(afterRole(setRole(Shell, r)))
  /\ last' = ShellStep
  /\ UNCHANGED <<storeRest, exec, session, auth, sync, mounted>>

\* onAuthStateChange delivers a session, to a page that holds none or that
\* holds one (a refreshed token, another user): setSession(newSession), then
\* the sync effect if the user is another one, and the fetch effect
SignIn(email, metaRole) ==
  /\ mounted /\ ~gateDue
  /\ session' = Session(email, metaRole)
  /\ auth' = Heard(Session(email, metaRole))
  /\ SyncEffect(Session(email, metaRole))
  /\ FetchEffect(Session(email, metaRole), auth.sessionLoading)
  /\ last' = ShellStep
  /\ UNCHANGED <<coll, remote, nextId, ops, propertyTable, resolved>>
  /\ UNCHANGED <<exec, role, activeView, settings, storage, nonce, gateDue, mounted>>

\* the profile of the settings after the sync: the rows and the metadata of
\* the model carry no name, and no email but the session's
syncedProfile(prev, userEmail) == [prev EXCEPT !.email = Or(userEmail, @)]

\* setRole(nextRole) and setSettings(prev => ...) at the end of the sync, then
\* the effects on [role]
SyncEnds(i, userRow, profileFound) ==
  /\ LET sh == setRole(Shell, nextRole(userRow, sync.running[i].metaRole, sync.running[i].role))
     IN Apply(afterRole(setSettings(sh, syncedProfile(sh.settings, sync.running[i].email))))
  /\ sync' = [running |-> RemoveAt(sync.running, i),
              done |-> [role |-> sync.running[i].role, email |-> sync.running[i].email,
                        metaRole |-> sync.running[i].metaRole, ended |-> TRUE,
                        userRow |-> userRow, profileFound |-> profileFound]]
  /\ last' = [type |-> "synced", userRow |-> userRow, profileFound |-> profileFound,
              run |-> sync.running[i]]

\* the sync goes on to its next await
SyncAwaits(i, table, lookup) ==
  /\ sync' = [sync EXCEPT !.running[i].table = table, !.running[i].lookup = lookup]
  /\ last' = ShellStep
  /\ UNCHANGED <<role, activeView, settings, storage, nonce, gateDue>>

\* fetchUserRow when the lookup it waits for has resolved
afterLookup(run, res) ==
  IF run.lookup = "byId" THEN afterById(res, run.email)
  ELSE [row |-> afterByEmail(res), again |-> FALSE]

\* a lookup of fetchUserRow('user_profiles') resolves: fetchUserRow goes on to
\* the lookup by email, or returns: with a row the sync ends, without one it
\* goes on to fetchUserRow('users')
ProfileResolves(i, res) ==
  /\ i \in DOMAIN sync.running /\ sync.running[i].table = "user_profiles" /\ ~gateDue
  /\ IF afterLookup(sync.running[i], res).again THEN SyncAwaits(i, "user_profiles", "byEmail")
     ELSE IF afterLookup(sync.running[i], res).row # NullRow
       THEN SyncEnds(i, afterLookup(sync.running[i], res).row, TRUE)
     ELSE SyncAwaits(i, "users", "byId")
  /\ UNCHANGED <<storeRest, exec, session, auth, mounted>>

\* a lookup of fetchUserRow('users') resolves
UsersResolves(i, res) ==
  /\ i \in DOMAIN sync.running /\ sync.running[i].table = "users" /\ ~gateDue
  /\ IF afterLookup(sync.running[i], res).again THEN SyncAwaits(i, "users", "byEmail")
     ELSE SyncEnds(i, afterLookup(sync.running[i], res).row, FALSE)
  /\ UNCHANGED <<storeRest, exec, session, auth, mounted>>

\* handleSignOut, or onAuthStateChange delivering null: setSession(null), and
\* the fetch effect runs without a session: setLoading(false)
SignOut ==
  /\ mounted /\ ~gateDue
  /\ SignedIn \/ auth.fetch # "done"
  /\ session' = NoSession
  /\ auth' = Heard(NoSession)
  /\ SyncEffect(NoSession)
  /\ IF SignedIn THEN FetchEffect(NoSession, auth.sessionLoading)
                 ELSE UNCHANGED <<loading, loads>>
  /\ last' = ShellStep
  /\ UNCHANGED <<coll, remote, nextId, ops, propertyTable, resolved>>
  /\ UNCHANGED <<exec, role, activeView, settings, storage, nonce, gateDue, mounted>>

\* 'eburon:clear-cache': the event is dispatched by the "Sync Now" button of
\* ToolsView and by nothing else, and ToolsView is rendered with a session,
\* when loading is false and the active view is 'tools'.  handleClearCache:
\* clearAppCache(); triggerDataReload(); the fetch effect runs on the new nonce
ClearCacheEvent(fault) ==
  /\ mounted /\ ~gateDue /\ DashboardShown /\ ~loading /\ activeView = "tools"
  /\ nonce < MaxReloads
  /\ Apply(afterRole(triggerDataReload(clearAppCache(Shell, fault))))
  /\ FetchEffect(session, auth.sessionLoading)
  /\ last' = [type |-> "cleared", fault |-> fault]
  /\ UNCHANGED <<coll, remote, nextId, ops, propertyTable, resolved>>
  /\ UNCHANGED <<exec, session, auth, sync, mounted>>

\* 'eburon:reload-data': triggerDataReload(); the fetch effect runs on the new nonce
ReloadEvent ==
  /\ mounted /\ ~gateDue /\ nonce < MaxReloads
  /\ Apply(triggerDataReload(Shell))
  /\ FetchEffect(session, auth.sessionLoading)
  /\ last' = ShellStep
  /\ UNCHANGED <<coll, remote, nextId, ops, propertyTable, resolved>>
  /\ UNCHANGED <<exec, session, auth, sync, mounted>>

\* what the settings view hands to updateSettings: the dark mode toggle alone,
\* or the form, which holds the settings with the profile as edited
SettingsForms ==
  { [prefs |-> "custom"], [settings EXCEPT !.email = "z@x", !.role = "Owner"] }

\* updateSettings(newSettings): setSettings(prev => ({ ...prev, ...newSettings })),
\* called by SettingsView, which is rendered with a session, when loading is
\* false and the active view is 'settings'
updateSettings(newSettings) ==
  /\ mounted /\ ~gateDue /\ DashboardShown /\ ~loading /\ activeView = "settings"
  /\ Apply(setSettings(Shell, Spread(settings, newSettings)))
  /\ last' = ShellStep
  /\ UNCHANGED <<storeRest, exec, session, auth, sync, mounted>>

\* mutant: the session of the answer is set although the call failed
initSession_SetOnError(answer, prev) == answer.session

\* if (!error) setSession(data.session)
initSession(answer, prev) == IF answer.failed THEN prev ELSE answer.session

\* the collaborator answers getSession with the session it holds now, or with an error
FetchReads(failed) ==
  /\ mounted /\ auth.fetch = "pending"
  /\ auth' = [auth EXCEPT !.fetch = "read", !.answer = Answer(auth.held, failed)]
  /\ last' = ShellStep
  /\ UNCHANGED <<storeRest, exec, session, role, activeView, settings, storage, nonce,
                 gateDue, sync, mounted>>

\* initSession runs from its await to its end: setSession unless the call
\* failed, then setSessionLoading(false); the effects follow: the role sync
\* starts for a new user, the fetch effect calls setLoading(false) without a
\* session and starts fetchAllData with one
FetchResolves ==
  /\ mounted /\ ~gateDue /\ auth.fetch = "read"
  /\ session' = initSession(auth.answer, session)
  /\ SyncEffect(initSession(auth.answer, session))
  /\ FetchEffect(initSession(auth.answer, session), FALSE)
  /\ auth' = GateOpen
  /\ last' = [type |-> "fetched", held |-> auth.held, answer |-> auth.answer, from |-> session]
  /\ UNCHANGED <<coll, remote, nextId, ops, propertyTable, resolved>>
  /\ UNCHANGED <<exec, role, activeView, settings, storage, nonce, gateDue, mounted>>

\* the component constructed over the local storage st (a page load)
ShellConstructed(st) ==
  /\ storage = st
  /\ settings = persistedOr(st, "eburon_settings", defaultSettings)
  /\ role = persistedOr(st, "eburon_role", "admin")
  /\ activeView = "dashboard"
  /\ session = NoSession
  /\ nonce = 0
  /\ gateDue = FALSE
  /\ sync = SyncIdle
  /\ mounted = FALSE
  /\ \E held \in PageSessions : auth = Pending(held)

\* the page is loaded again: the state is constructed from the local storage,
\* what was in flight is gone, sessionLoading is true again and getSession
\* will be called by the mount effect
Restart ==
  /\ mounted /\ ~gateDue
  /\ \E held \in PageSessions : auth' = Pending(held)
  /\ settings' = persistedOr(storage, "eburon_settings", defaultSettings)
  /\ role' = persistedOr(storage, "eburon_role", "admin")
  /\ activeView' = "dashboard"
  /\ session' = NoSession
  /\ nonce' = 0
  /\ sync' = SyncIdle
  /\ mounted' = FALSE
  /\ coll' = [e \in Entities |-> <<>>]
  /\ ops' = <<>>
  /\ loads' = <<>>
  /\ loading' = TRUE
  /\ propertyTable' = "listings"
  /\ resolved' = "none"
  /\ last' = [type |-> "restart"]
  /\ UNCHANGED <<remote, nextId, exec, storage, gateDue>>

\* the settings once the sync of u@x has ended for the admin role
SettledSettings ==
  syncedProfile([defaultSettings EXCEPT !.role = roleLabelMap("admin")], "u@x")

\* the shell of a session that is signed in and settled: getSession has
\* answered with the session of u@x, and the sync that sign-in started has
\* ended without a row (its four lookups found none), so that the role is
\* the cached one and the profile holds the e-mail of the session
ShellSettled ==
  /\ storage = [k \in StorageKeys |->
                 IF k = APP_CACHE_VERSION_KEY THEN Stored(APP_CACHE_VERSION)
                 ELSE IF k = "eburon_role" THEN Stored("admin")
                 ELSE Stored(SettledSettings)]
  /\ settings = SettledSettings
  /\ role = "admin"
  /\ activeView = "dashboard"
  /\ session = Session("u@x", Undefined)
  /\ nonce = 0
  /\ gateDue = FALSE
  /\ sync = [running |-> <<>>,
             done |-> [role |-> "admin", email |-> "u@x", metaRole |-> Undefined,
                       ended |-> TRUE, userRow |-> NullRow, profileFound |-> FALSE]]
  /\ mounted = TRUE
  /\ auth = GateOpen

\* what the local storage may hold when the page is loaded
PersistedSettings == {[defaultSettings EXCEPT !.prefs = "custom", !.role = "Maintenance"]}
InitialStorages ==
  { [k \in StorageKeys |->
       IF k = APP_CACHE_VERSION_KEY THEN m ELSE IF k = "eburon_role" THEN r ELSE st] :
     m \in {Absent, Stored("0"), Stored(APP_CACHE_VERSION)},
     r \in {Absent} \cup { Stored(x) : x \in Roles },
     st \in {Absent} \cup { Stored(x) : x \in PersistedSettings } }

-----------------------------------------------------------------------------
(* Entity store: records, payloads and the remote tables *)

\* the most rows the remote store ever creates
MaxRows == 2
\* the most entity kinds in use at once (their handlers share no state)
MaxEntities == 1

Ids == { ToString(n) : n \in 1..MaxRows }

\* the keys of a payload that JSON.stringify keeps (undefined values are dropped)
Sent(payload) == { k \in DOMAIN payload : payload[k] # Undefined }

\* the row the remote creates for an accepted insert: a column without a value is null
InsertedRow(payload, id) ==
  [k \in DOMAIN payload \cup {"id"} |->
     IF k = "id" THEN id ELSE IF payload[k] = Undefined THEN Null ELSE payload[k]]

\* the row after an accepted update: only the keys sent are written
UpdatedRow(row, payload) ==
  [k \in DOMAIN row \cup Sent(payload) |-> IF k \in Sent(payload) THEN payload[k] ELSE row[k]]

\* prev.map(x => x.id === id ? f(x) : x), prev.filter(x => x.id !== id)
\* mutant: the patch is spread over every record
MapById_All(prev, id, patch) == [i \in DOMAIN prev |-> Spread(prev[i], patch)]

MapById(prev, id, patch) == [i \in DOMAIN prev |-> IF prev[i].id = id THEN Spread(prev[i], patch) ELSE prev[i]]
\* mutant: the first record is dropped, whatever its id
FilterOut_Head(prev, id) == IF prev = <<>> THEN prev ELSE Tail(prev)

FilterOut(prev, id) == SelectSeq(prev, LAMBDA x : x.id # id)
Find(prev, id) == SelectSeq(prev, LAMBDA x : x.id = id)

\* what the forms submit
LeadInputs == { [name |-> "a", email |-> "a@x", phone |-> "", status |-> "new", source |-> "",
                 notes |-> "", lastContact |-> "t1", createdAt |-> "t1"] }
LeadPatches == { [status |-> "contacted", notes |-> "n"] }
TaskInputs == { [createdAt |-> "t1", title |-> "t", description |-> "", dueDate |-> "t2",
                 priority |-> "medium", category |-> "General", completed |-> "false"] }
EventInputs == { [createdAt |-> "t1", title |-> "e", description |-> "", date |-> "d1",
                  startTime |-> "09:00", endTime |-> "10:00", color |-> "blue", duration |-> "30m"] }
TransactionInputs == { [createdAt |-> "t1", description |-> "x", category |-> "", date |-> "d1",
                        type |-> "income", amount |-> "100", method |-> ""] }
PropertyInputs == { [name |-> "p", status |-> "active", type |-> "house", address |-> "s",
                     price |-> "250", bedrooms |-> "2", bathrooms |-> "1", size |-> "80",
                     images |-> "[img]"] }
PropertyPatches == { [status |-> "sold"] }
MessageInputs == { [email |-> "s@x", date |-> "t1", read |-> "false", sender |-> "s", subject |-> "",
                    body |-> "", starred |-> "false"] }
MessagePatches == { [starred |-> "true"] }

-----------------------------------------------------------------------------
(* Entity store: the handlers up to their first await.  A suspended handler *)
(* is a record: the write it waits for and what it needs to continue.       *)

\* a handler that sends no payload (delete) or has no fallback mapping
NoPayload == [none |-> Undefined]

Op(kind, entity, table, fn, id, data, primary, fallback, stage) ==
  [data |-> data, fn |-> fn, id |-> id,
   calls |-> IF stage = "first" THEN <<"primary">> ELSE <<"direct">>,
   stage |-> stage, table |-> table, answer |-> NotServed, kind |-> kind,
   entity |-> entity, primary |-> primary, fallback |-> fallback]

\* the insert may still create a row: its write is not served yet, or was
\* rejected and is sent again
MayInsert(o) ==
  /\ o.fn = "insert"
  /\ \/ o.answer = NotServed
     \/ o.stage = "first" /\ afterFirst(o.fn, o.answer).retry

PendingInserts == Len(SelectSeq(ops, MayInsert))

\* the entities with a row, here or in the remote store, or with a handler suspended
TablesOf(e) == IF e = "properties" THEN {"properties", "listings"} ELSE {e}
InUse == { e \in Entities : \/ coll[e] # <<>>
                            \/ \E t \in TablesOf(e) : remote[t] # <<>>
                            \/ \E i \in DOMAIN ops : ops[i].entity = e }

\* room for one more suspended handler (and, for an insert, one more id)
CanIssue(op) ==
  /\ Len(ops) + Len(loads) < MaxOps
  /\ op.fn = "insert" => nextId + PendingInserts <= MaxRows
  /\ Cardinality(InUse \cup {op.entity}) <= MaxEntities

\* the views that call the handlers are rendered only with a session and
\* when loading is false; renderView hands the handlers to every view but
\* ToolsView
Issue(op) ==
  /\ DashboardShown
  /\ ~loading
  /\ activeView # "tools"
  /\ CanIssue(op)
  /\ ops' = Append(ops, op)
  /\ last' = [error |-> NoError, ret |-> NoResponse, type |-> "issue", op |-> NoPayload]
  /\ UNCHANGED <<shellVars, exec, coll, remote, nextId, propertyTable, loading, loads, resolved>>

addLead(data) ==
  LET snake == [name |-> data.name, email |-> data.email, phone |-> data.phone,
                status |-> data.status, source |-> data.source, notes |-> data.notes,
                lastcontact |-> data.lastContact, createdat |-> data.createdAt]
      camel == [name |-> data.name, email |-> data.email, phone |-> data.phone,
                status |-> data.status, source |-> data.source, notes |-> data.notes,
                lastContact |-> data.lastContact, createdAt |-> data.createdAt]
  IN Issue(Op("addLead", "leads", "leads", "insert", Undefined, data, snake, camel, "first"))

\* the key a defined field of the patch gets in the lower-case / camel-case mapping
LeadSnakeKey(k) == IF k = "lastContact" THEN "lastcontact" ELSE IF k = "createdAt" THEN "createdat" ELSE k
LeadPatchKeys(data) ==
  { k \in DOMAIN data \cap {"name", "email", "phone", "status", "source", "notes", "lastContact", "createdAt"} :
      data[k] # Undefined }

updateLead(id, data) ==
  LET keys == LeadPatchKeys(data)
      snake == [c \in { LeadSnakeKey(k) : k \in keys } |->
                  data[CHOOSE k \in keys : LeadSnakeKey(k) = c]]
      camel == [k \in keys |-> data[k]]
  IN Issue(Op("updateLead", "leads", "leads", "update", id, data, snake, camel, "first"))

deleteLead(id) ==
  Issue(Op("deleteLead", "leads", "leads", "delete", id, NoPayload, NoPayload, NoPayload, "direct"))

addTask(data) ==
  LET snake == [title |-> data.title, description |-> data.description, priority |-> data.priority,
                category |-> data.category, completed |-> data.completed, createdat |-> data.createdAt,
                duedate |-> data.dueDate, completedat |-> Get(data, "completedAt")]
      camel == [createdAt |-> data.createdAt, title |-> data.title, description |-> data.description,
                dueDate |-> data.dueDate, priority |-> data.priority, category |-> data.category,
                completed |-> data.completed, completedAt |-> Get(data, "completedAt")]
  IN Issue(Op("addTask", "tasks", "tasks", "insert", Undefined, data, snake, camel, "first"))

\* `tasks` is the collection of the render the handler was created in
toggleTaskComplete(id) ==
  /\ Find(coll["tasks"], id) # <<>>
  /\ LET task == Head(Find(coll["tasks"], id))
         updates == [completed |-> Not(task.completed),
                     completedAt |-> IF ~Truthy(task.completed) THEN NowIso ELSE Undefined]
         snake == [completed |-> updates.completed, completedat |-> updates.completedAt]
         camel == [completed |-> updates.completed, completedAt |-> updates.completedAt]
     IN Issue(Op("toggleTaskComplete", "tasks", "tasks", "update", id, updates, snake, camel, "first"))

deleteTask(id) ==
  Issue(Op("deleteTask", "tasks", "tasks", "delete", id, NoPayload, NoPayload, NoPayload, "direct"))

addEvent(data) ==
  LET snake == [title |-> data.title, description |-> data.description, date |-> data.date,
                color |-> data.color, duration |-> data.duration, createdat |-> data.createdAt,
                starttime |-> data.startTime, endtime |-> data.endTime]
      camel == [createdAt |-> data.createdAt, title |-> data.title, description |-> data.description,
                date |-> data.date, startTime |-> data.startTime, endTime |-> data.endTime,
                color |-> data.color, duration |-> data.duration]
  IN Issue(Op("addEvent", "events", "events", "insert", Undefined, data, snake, camel, "first"))

deleteEvent(id) ==
  Issue(Op("deleteEvent", "events", "events", "delete", id, NoPayload, NoPayload, NoPayload, "direct"))

addTransaction(data) ==
  LET snake == [description |-> data.description, category |-> data.category, date |-> data.date,
                type |-> data.type, amount |-> data.amount, method |-> data.method,
                reference |-> Get(data, "reference"), createdat |-> data.createdAt]
      camel == [createdAt |-> data.createdAt, description |-> data.description, category |-> data.category,
                date |-> data.date, type |-> data.type, amount |-> data.amount,
                method |-> data.method, reference |-> Get(data, "reference")]
  IN Issue(Op("addTransaction", "transactions", "transactions", "insert", Undefined, data, snake, camel, "first"))

deleteTransaction(id) ==
  Issue(Op("deleteTransaction", "transactions", "transactions", "delete", id, NoPayload, NoPayload, NoPayload, "direct"))

\* `propertyTable` is the state of the render the handler was created in
addProperty(data) ==
  LET legacyPayload == [name |-> data.name, status |-> data.status, type |-> data.type,
                        address |-> data.address, price |-> data.price, bedrooms |-> data.bedrooms,
                        bathrooms |-> data.bathrooms, size |-> data.size,
                        images |-> Or(Get(data, "images"), "[]"),
                        createdat |-> Or(Get(data, "createdAt"), NowIso)]
      listingPayload == [name |-> data.name, status |-> data.status, type |-> data.type,
                         address |-> data.address, price |-> data.price, bedrooms |-> data.bedrooms,
                         bathrooms |-> data.bathrooms, size |-> data.size,
                         coordinates |-> Get(data, "coordinates"),
                         image_urls |-> Or(Get(data, "images"), "[]"),
                         energy_class |-> Get(data, "energyClass"),
                         pets_allowed |-> Coalesce(Get(data, "petsAllowed"), "false"),
                         created_at |-> Or(Get(data, "createdAt"), NowIso)]
  IN IF propertyTable = "properties"
       THEN Issue(Op("addProperty", "properties", "properties", "insert", Undefined, data,
                     legacyPayload, NoPayload, "direct"))
       ELSE Issue(Op("addProperty", "properties", "listings", "insert", Undefined, data,
                     listingPayload, NoPayload, "direct"))

updateProperty(id, data) ==
  LET legacyPayload == [name |-> Get(data, "name"), status |-> Get(data, "status"),
                        type |-> Get(data, "type"), address |-> Get(data, "address"),
                        price |-> Get(data, "price"), bedrooms |-> Get(data, "bedrooms"),
                        bathrooms |-> Get(data, "bathrooms"), size |-> Get(data, "size"),
                        images |-> Get(data, "images")]
      listingPayload == [name |-> Get(data, "name"), status |-> Get(data, "status"),
                         type |-> Get(data, "type"), address |-> Get(data, "address"),
                         price |-> Get(data, "price"), bedrooms |-> Get(data, "bedrooms"),
                         bathrooms |-> Get(data, "bathrooms"), size |-> Get(data, "size"),
                         coordinates |-> Get(data, "coordinates"),
                         image_urls |-> Get(data, "images"),
                         energy_class |-> Get(data, "energyClass"),
                         pets_allowed |-> Get(data, "petsAllowed")]
  IN IF propertyTable = "properties"
       THEN Issue(Op("updateProperty", "properties", "properties", "update", id, data,
                     legacyPayload, NoPayload, "direct"))
       ELSE Issue(Op("updateProperty", "properties", "listings", "update", id, data,
                     listingPayload, NoPayload, "direct"))

deleteProperty(id) ==
  Issue(Op("deleteProperty", "properties", propertyTable, "delete", id, NoPayload, NoPayload, NoPayload, "direct"))

addMessage(data) ==
  Issue(Op("addMessage", "messages", "messages", "insert", Undefined, data, data, NoPayload, "direct"))

updateMessage(id, data) ==
  Issue(Op("updateMessage", "messages", "messages", "update", id, data, data, NoPayload, "direct"))

markMessageRead(id) ==
  Issue(Op("markMessageRead", "messages", "messages", "update", id, [read |-> "true"],
           [read |-> "true"], NoPayload, "direct"))

deleteMessage(id) ==
  Issue(Op("deleteMessage", "messages", "messages", "delete", id, NoPayload, NoPayload, NoPayload, "direct"))

-----------------------------------------------------------------------------
(* Entity store: the handlers after their await *)

addLeadThen(prev, ret) ==
  IF ret.data # NullRow /\ ret.error.isNull THEN <<mapLeadRow(ret.data)>> \o prev ELSE prev

\* mutant: the patch is merged whether or not the update failed
updateLeadThen_IgnoreError(prev, id, data, ret) == MapById(prev, id, data)

updateLeadThen(prev, id, data, ret) ==
  IF ret.error.isNull THEN MapById(prev, id, data) ELSE prev

addTaskThen(prev, ret) ==
  IF ret.data # NullRow /\ ret.error.isNull THEN <<mapTaskRow(ret.data)>> \o prev ELSE prev

toggleTaskCompleteThen(prev, id, updates, ret) ==
  IF ret.error.isNull THEN MapById(prev, id, updates) ELSE prev

addEventThen(prev, ret) ==
  IF ret.data # NullRow /\ ret.error.isNull THEN prev \o <<mapEventRow(ret.data)>> ELSE prev

addTransactionThen(prev, ret) ==
  IF ret.data # NullRow /\ ret.error.isNull THEN <<mapTransactionRow(ret.data)>> \o prev ELSE prev

addPropertyThen(prev, ret) ==
  IF ret.data # NullRow /\ ret.error.isNull THEN <<mapListingToProperty(ret.data)>> \o prev ELSE prev

updatePropertyThen(prev, id, data, ret) ==
  IF ret.error.isNull THEN MapById(prev, id, data) ELSE prev

addMessageThen(prev, ret) ==
  IF ret.data # NullRow /\ ret.error.isNull THEN <<mapMessageRow(ret.data)>> \o prev ELSE prev

updateMessageThen(prev, id, data, ret) ==
  IF ret.error.isNull THEN MapById(prev, id, data) ELSE prev

\* mutant: the id is filtered out whether or not the delete failed
deleteThen_IgnoreError(prev, id, ret) == FilterOut(prev, id)

\* deleteLead, deleteProperty, deleteTask, deleteEvent, deleteTransaction, deleteMessage
deleteThen(prev, id, ret) ==
  IF ret.error.isNull THEN FilterOut(prev, id) ELSE prev

\* the collection of op.entity after the handler has run to its end
Then(op, prev, ret) ==
  CASE op.kind = "addLead" -> addLeadThen(prev, ret)
    [] op.kind = "updateLead" -> updateLeadThen(prev, op.id, op.data, ret)
    [] op.kind = "addTask" -> addTaskThen(prev, ret)
    [] op.kind = "toggleTaskComplete" -> toggleTaskCompleteThen(prev, op.id, op.data, ret)
    [] op.kind = "addEvent" -> addEventThen(prev, ret)
    [] op.kind = "addTransaction" -> addTransactionThen(prev, ret)
    [] op.kind = "addProperty" -> addPropertyThen(prev, ret)
    [] op.kind = "updateProperty" -> updatePropertyThen(prev, op.id, op.data, ret)
    [] op.kind = "addMessage" -> addMessageThen(prev, ret)
    [] op.kind \in {"updateMessage", "markMessageRead"} -> updateMessageThen(prev, op.id, op.data, ret)
    [] OTHER -> deleteThen(prev, op.id, ret)

-----------------------------------------------------------------------------
(* The remote store answering a write *)

\* the table after the write is accepted
Accepted(op, payload) ==
  CASE op.fn = "insert" -> Append(remote[op.table], InsertedRow(payload, ToString(nextId)))
    [] op.fn = "update" -> [i \in DOMAIN remote[op.table] |->
                              IF remote[op.table][i].id = op.id
                                THEN UpdatedRow(remote[op.table][i], payload)
                                ELSE remote[op.table][i]]
    [] OTHER -> FilterOut(remote[op.table], op.id)

\* the response to the write: error is null when it was accepted
Response(op, payload, error) ==
  IF error.isNull
    THEN [error |-> NoError,
          data |-> IF op.fn = "insert" THEN InsertedRow(payload, ToString(nextId)) ELSE NullRow]
    ELSE [error |-> error, data |-> NullRow]

\* a table has one set of columns: a write is accepted only if every key it
\* sends is a column of the rows the table holds
KnownColumns(op, payload) ==
  \A i \in DOMAIN remote[op.table] : Sent(payload) \subseteq DOMAIN remote[op.table][i]

\* the remote store serves the write: an accepted write is committed
RemoteAnswers(op, payload, error) ==
  /\ error.isNull => KnownColumns(op, payload)
  /\ remote' = IF error.isNull THEN [remote EXCEPT ![op.table] = Accepted(op, payload)] ELSE remote
  /\ nextId' = IF error.isNull /\ op.fn = "insert" THEN nextId + 1 ELSE nextId

\* the payload of the write the handler waits for
Awaited(op) == IF op.stage = "second" THEN op.fallback ELSE op.primary

\* The remote store serves the write a handler waits for, at some moment
\* after it was sent: the write is committed or rejected there, and the
\* answer is on its way to the handler.
WriteServed(i, error) ==
  /\ i \in DOMAIN ops /\ ops[i].answer = NotServed
  /\ RemoteAnswers(ops[i], Awaited(ops[i]), error)
  /\ ops' = [ops EXCEPT ![i].answer = Response(ops[i], Awaited(ops[i]), error)]
  /\ last' = [error |-> NoError, ret |-> NoResponse, type |-> "served", op |-> NoPayload]
  /\ UNCHANGED <<shellVars, exec, coll, propertyTable, loading, loads, resolved>>

\* the handler runs from its await to its end
Finish(i, ret) ==
  /\ coll' = [coll EXCEPT ![ops[i].entity] = Then(ops[i], @, ret)]
  /\ ops' = RemoveAt(ops, i)
  /\ last' = [error |-> ops[i].answer.error, ret |-> ret, type |-> "done", op |-> ops[i]]

\* the answer to the first write of insertWithFallback / updateWithFallback
\* is delivered: the second write is sent, or the handler runs to its end
FirstResolves(i) ==
  /\ i \in DOMAIN ops /\ ops[i].stage = "first" /\ ops[i].answer # NotServed
  /\ LET step == afterFirst(ops[i].fn, ops[i].answer) IN
       IF step.retry
         THEN /\ ops' = [ops EXCEPT ![i].stage = "second", ![i].calls = Append(@, "fallback"),
                                    ![i].answer = NotServed]
              /\ last' = [error |-> ops[i].answer.error, ret |-> NoResponse, type |-> "retry",
                          op |-> ops[i]]
              /\ coll' = coll
         ELSE Finish(i, step.ret)
  /\ UNCHANGED <<shellVars, exec, remote, nextId, propertyTable, loading, loads, resolved>>

\* the answer to the second write of insertWithFallback / updateWithFallback
\* is delivered
SecondResolves(i) ==
  /\ i \in DOMAIN ops /\ ops[i].stage = "second" /\ ops[i].answer # NotServed
  /\ Finish(i, afterSecond(ops[i].fn, ops[i].answer))
  /\ UNCHANGED <<shellVars, exec, remote, nextId, propertyTable, loading, loads, resolved>>

\* the answer to a write sent without the executor is delivered
DirectResolves(i) ==
  /\ i \in DOMAIN ops /\ ops[i].stage = "direct" /\ ops[i].answer # NotServed
  /\ Finish(i, ops[i].answer)
  /\ UNCHANGED <<shellVars, exec, remote, nextId, propertyTable, loading, loads, resolved>>

\* the write is accepted, rejected for an unknown column, or fails otherwise
Outcomes == {NoError, SchemaCacheMiss, NetworkError}

\* the component constructed over the remote tables r, which hold n rows, and
\* signed in: the fetch effect has run and the first load is in flight
Constructed(r, n) ==
  /\ coll = [e \in Entities |-> <<>>]
  /\ remote = r
  /\ nextId = n + 1
  /\ ops = <<>>
  /\ propertyTable = "listings"
  /\ loading = TRUE
  /\ loads = <<NewLoad>>
  /\ last = [error |-> NoError, ret |-> NoResponse, type |-> "init", op |-> NoPayload]
  /\ resolved = "none"
  /\ ShellSettled

\* the store when the first load has ended over empty tables: the views are rendered
StoreInit ==
  /\ coll = [e \in Entities |-> <<>>]
  /\ remote = [t \in Tables |-> <<>>]
  /\ nextId = 1
  /\ ops = <<>>
  /\ propertyTable = "listings"
  /\ loading = FALSE
  /\ loads = <<>>
  /\ last = [error |-> NoError, ret |-> NoResponse, type |-> "init", op |-> NoPayload]
  /\ resolved = "listings"
  /\ ShellSettled

\* the record the edit forms and the toggles are used on
EditedIds == {"1"}

StoreIssue ==
  \/ \E data \in LeadInputs : addLead(data)
  \/ \E id \in EditedIds, data \in LeadPatches : updateLead(id, data)
  \/ \E id \in Ids : deleteLead(id)
  \/ \E data \in TaskInputs : addTask(data)
  \/ \E id \in EditedIds : toggleTaskComplete(id)
  \/ \E id \in Ids : deleteTask(id)
  \/ \E data \in EventInputs : addEvent(data)
  \/ \E id \in Ids : deleteEvent(id)
  \/ \E data \in TransactionInputs : addTransaction(data)
  \/ \E id \in Ids : deleteTransaction(id)
  \/ \E data \in PropertyInputs : addProperty(data)
  \/ \E id \in EditedIds, data \in PropertyPatches : updateProperty(id, data)
  \/ \E id \in Ids : deleteProperty(id)
  \/ \E data \in MessageInputs : addMessage(data)
  \/ \E id \in EditedIds, data \in MessagePatches : updateMessage(id, data)
  \/ \E id \in EditedIds : markMessageRead(id)
  \/ \E id \in Ids : deleteMessage(id)

StoreResolve ==
  \/ \E i \in 1..MaxOps, error \in Outcomes : WriteServed(i, error)
  \/ \E i \in 1..MaxOps : FirstResolves(i)
  \/ \E i \in 1..MaxOps : SecondResolves(i)
  \/ \E i \in 1..MaxOps : DirectResolves(i)

StoreNext == StoreIssue \/ StoreResolve

-----------------------------------------------------------------------------
(* fetchAllData: the load of the six collections and the table resolver *)

\* Date.parse on the date strings the model uses; anything else is NaN (0 here)
DateMs(s) ==
  CASE s = "t1" -> 1 [] s = "t2" -> 2 [] s = "t3" -> 3 [] s = "now" -> 9
    [] s = "d1" -> 1 [] s = "d2" -> 2 [] OTHER -> 0

\* the minutes of a time of day; anything else is NaN (0 here)
TimeMs(s) == CASE s = "09:00" -> 1 [] s = "10:00" -> 2 [] s = "11:00" -> 3 [] OTHER -> 0

parseSortableDate(value) == IF ~Truthy(value) THEN 0 ELSE DateMs(value)

\* parseSortableDate(`${e.date} ${e.startTime}`): the string parses only if both parts do
EventSortKey(e) ==
  IF DateMs(e.date) = 0 \/ TimeMs(e.startTime) = 0 THEN 0 ELSE DateMs(e.date) * 10 + TimeMs(e.startTime)

\* Array.prototype.sort (stable) of keyed rows; the comparator is the difference
\* of the keys, ascending
RECURSIVE InsertStable(_, _)
InsertStable(x, sorted) ==
  IF sorted = <<>> THEN <<x>>
  ELSE IF x.key - Head(sorted).key < 0 THEN <<x>> \o sorted
  ELSE <<Head(sorted)>> \o InsertStable(x, Tail(sorted))

RECURSIVE SortStable(_)
SortStable(seq) ==
  IF seq = <<>> THEN <<>>
  ELSE InsertStable(seq[Len(seq)], SortStable(SubSeq(seq, 1, Len(seq) - 1)))

\* a record with the key the comparator subtracts
Keyed(key, row) == [row |-> row, key |-> key]
Unkeyed(sorted) == [i \in DOMAIN sorted |-> sorted[i].row]

\* rows.map(mapper).sort(comparator)
LoadedLeads(rows) ==
  Unkeyed(SortStable([i \in DOMAIN rows |->
    Keyed(0 - parseSortableDate(mapLeadRow(rows[i]).createdAt), mapLeadRow(rows[i]))]))
LoadedMessages(rows) ==
  Unkeyed(SortStable([i \in DOMAIN rows |->
    Keyed(0 - parseSortableDate(Get(mapMessageRow(rows[i]), "date")), mapMessageRow(rows[i]))]))
LoadedTasks(rows) ==
  Unkeyed(SortStable([i \in DOMAIN rows |->
    Keyed(0 - parseSortableDate(mapTaskRow(rows[i]).createdAt), mapTaskRow(rows[i]))]))
LoadedEvents(rows) ==
  Unkeyed(SortStable([i \in DOMAIN rows |->
    Keyed(EventSortKey(mapEventRow(rows[i])), mapEventRow(rows[i]))]))
LoadedTransactions(rows) ==
  Unkeyed(SortStable([i \in DOMAIN rows |->
    Keyed(0 - parseSortableDate(mapTransactionRow(rows[i]).date), mapTransactionRow(rows[i]))]))

\* (res.data as any[]).map(mapListingToProperty)
LoadedProperties(rows) == [i \in DOMAIN rows |-> mapListingToProperty(rows[i])]

Loaded(e, rows) ==
  CASE e = "leads" -> LoadedLeads(rows)
    [] e = "messages" -> LoadedMessages(rows)
    [] e = "tasks" -> LoadedTasks(rows)
    [] e = "events" -> LoadedEvents(rows)
    [] OTHER -> LoadedTransactions(rows)

\* the five tables queried together
JoinedTables == {"leads", "messages", "tasks", "events", "transactions"}

\* the answer to supabase.from(table).select('*'), when the remote store serves it
SelectResponse(table, error) ==
  IF error.isNull THEN [error |-> NoError, data |-> remote[table]]
                  ELSE [error |-> error, data |-> <<>>]

NoSelect == [error |-> NoError, data |-> <<>>]

\* a table that holds rows exists: its select is not answered "relation does not exist"
CanAnswer(table, error) == isMissingRelation(error) => remote[table] = <<>>

\* the selects the load waits for
Awaits(load) ==
  IF load.stage = "all" THEN JoinedTables
  ELSE IF load.stage = "listings" THEN {"listings"}
  ELSE {"properties"}

\* The remote store serves the selects of S, which a load waits for, at some
\* moment after they were sent: each answer holds the rows its table holds
\* at that moment.
SelectsServed(i, S, errors) ==
  /\ i \in DOMAIN loads
  /\ S # {} /\ S \subseteq Awaits(loads[i])
  /\ \A t \in S : loads[i].answers[t] = NotServed /\ CanAnswer(t, errors[t])
  /\ loads' = [loads EXCEPT ![i].answers =
                 [t \in Tables |-> IF t \in S THEN SelectResponse(t, errors[t]) ELSE @[t]]]
  /\ last' = [error |-> NoError, ret |-> NoResponse, type |-> "selected", op |-> NoPayload]
  /\ UNCHANGED <<shellVars, exec, coll, remote, nextId, ops, propertyTable, loading, resolved>>

\* the five selects are served at one moment
JoinedServed(i, errors) == SelectsServed(i, JoinedTables, errors)
\* the listings select, or the legacy select, is served
OneServed(i, error) ==
  /\ i \in DOMAIN loads /\ loads[i].stage # "all"
  /\ SelectsServed(i, Awaits(loads[i]), [t \in Awaits(loads[i]) |-> error])

\* every select the load waits for is served
Served(load) == \A t \in Awaits(load) : load.answers[t] # NotServed

\* listingsRes / legacyRes `.data && .data.length > 0`
HasRows(res) == res.error.isNull /\ Len(res.data) > 0

\* what the resolver does when no branch is taken: nothing is set
Keep(table, props) == [table |-> table, props |-> props, set |-> FALSE]
Choose(table, rows) == [table |-> table, props |-> LoadedProperties(rows), set |-> TRUE]

\* mutant: a listings table that is missing selects the legacy table only when
\* the legacy table has rows
resolveAfterLegacy_NoMissingBranch(listingsRes, legacyRes, table, props) ==
  IF HasRows(legacyRes) THEN Choose("properties", legacyRes.data)
  ELSE IF listingsRes.error.isNull THEN Choose("listings", <<>>)
  ELSE Keep(table, props)

\* The resolver when the legacy select has resolved: the table and the
\* collection it sets, or the ones it leaves as they are.
resolveAfterLegacy(listingsRes, legacyRes, table, props) ==
  IF HasRows(legacyRes) THEN Choose("properties", legacyRes.data)
  ELSE IF listingsRes.error.isNull THEN Choose("listings", <<>>)
  ELSE IF isMissingRelation(listingsRes.error) /\ legacyRes.error.isNull
    THEN Choose("properties", legacyRes.data)
  ELSE Keep(table, props)

\* mutant: the listings rows are put in front of what the collection held
resolveAfterListings_Merge(listingsRes, props) ==
  [table |-> "listings", props |-> LoadedProperties(listingsRes.data) \o props,
   set |-> TRUE]

\* The resolver when the listings select has resolved with rows.
resolveAfterListings(listingsRes, props) == Choose("listings", listingsRes.data)

\* onAuthStateChange delivers the session the page holds once more (the token
\* was refreshed): the fetch effect runs fetchAllData again
LoadStart == SignedIn /\ SignIn(session.email, session.metaRole)

\* Promise.all resolves: every collection whose select has data is replaced,
\* then the listings select is sent
AllResolve(i) ==
  /\ i \in DOMAIN loads /\ loads[i].stage = "all" /\ Served(loads[i])
  /\ coll' = [e \in Entities |->
               IF e \in JoinedTables /\ loads[i].answers[e].error.isNull
                 THEN Loaded(e, loads[i].answers[e].data)
                 ELSE coll[e]]
  /\ loads' = [loads EXCEPT ![i] = [NewLoad EXCEPT !.stage = "listings"]]
  /\ last' = [error |-> NoError, ret |-> NoResponse, type |-> "joined",
              op |-> [answers |-> [e \in JoinedTables |-> loads[i].answers[e]]]]
  /\ UNCHANGED <<shellVars, exec, remote, nextId, ops, propertyTable, loading, resolved>>

\* the resolver has run: its choice is set and the load ends (finally: setLoading(false));
\* `resolved` keeps the first table the resolver set
LoadEnds(i, listingsRes, legacyRes, asked, choice) ==
  /\ propertyTable' = choice.table
  /\ coll' = [coll EXCEPT !["properties"] = choice.props]
  /\ loading' = FALSE
  /\ loads' = RemoveAt(loads, i)
  /\ resolved' = IF resolved = "none" /\ choice.set THEN choice.table ELSE resolved
  /\ last' = [error |-> NoError, ret |-> NoResponse, type |-> "loaded",
              op |-> [listingsRes |-> listingsRes, legacyRes |-> legacyRes, legacyAsked |-> asked]]

\* the answer to the listings select is delivered: the resolver ends with
\* rows, or sends the legacy select
ListingsResolve(i) ==
  /\ i \in DOMAIN loads /\ loads[i].stage = "listings" /\ Served(loads[i])
  /\ LET listingsRes == loads[i].answers["listings"] IN
       IF HasRows(listingsRes)
         THEN LoadEnds(i, listingsRes, NoSelect, FALSE,
                       resolveAfterListings(listingsRes, coll["properties"]))
         ELSE /\ loads' = [loads EXCEPT ![i] = [NewLoad EXCEPT !.stage = "legacy",
                                                              !.listingsRes = listingsRes]]
              /\ last' = [error |-> listingsRes.error, ret |-> NoResponse, type |-> "listed",
                          op |-> NoPayload]
              /\ UNCHANGED <<coll, propertyTable, loading, resolved>>
  /\ UNCHANGED <<shellVars, exec, remote, nextId, ops>>

\* the answer to the legacy select is delivered
LegacyResolve(i) ==
  /\ i \in DOMAIN loads /\ loads[i].stage = "legacy" /\ Served(loads[i])
  /\ LoadEnds(i, loads[i].listingsRes, loads[i].answers["properties"], TRUE,
              resolveAfterLegacy(loads[i].listingsRes, loads[i].answers["properties"],
                                 propertyTable, coll["properties"]))
  /\ UNCHANGED <<shellVars, exec, remote, nextId, ops>>

\* a select succeeds, fails, or fails because the table does not exist
JoinedOutcomes == [JoinedTables -> {NoError, NetworkError}]
LoadOutcomes == {NoError, NetworkError, RelationMissing, RelationMissingInDetails}
AllSucceed == [e \in JoinedTables |-> NoError]

\* the answers of a load are delivered
LoadResolve ==
  \/ \E i \in 1..MaxOps : AllResolve(i)
  \/ \E i \in 1..MaxOps : ListingsResolve(i)
  \/ \E i \in 1..MaxOps : LegacyResolve(i)

\* the five selects answer alike but for the select of table t, which may fail
FailsOnly(t) == { AllSucceed, [AllSucceed EXCEPT ![t] = NetworkError] }

(* Tasks: the remote rows the component may be constructed over *)

LowerTaskRow(completed, at) ==
  [id |-> "1", title |-> "t", description |-> "", priority |-> "medium", category |-> "General",
   completed |-> completed, createdat |-> "t1", duedate |-> "t2", completedat |-> at]
CamelTaskRow(completed, at) ==
  [id |-> "1", createdAt |-> "t1", title |-> "t", description |-> "", dueDate |-> "t2",
   priority |-> "medium", category |-> "General", completed |-> completed, completedAt |-> at]
SnakeTaskRow(completed, at) ==
  [id |-> "1", title |-> "t", description |-> "", priority |-> "medium", category |-> "General",
   completed |-> completed, created_at |-> "t1", due_date |-> "t2", completed_at |-> at]

\* open, done, and un-completed with the completed-at value still there
TaskStates == { <<"false", Null>>, <<"true", "t3">>, <<"false", "t3">> }
TaskRowShapes ==
  { LowerTaskRow(c[1], c[2]) : c \in TaskStates } \cup
  { CamelTaskRow("true", "t3"), SnakeTaskRow("false", "t3") }

TasksInit ==
  /\ ExecInit
  /\ \E rows \in {<<>>} \cup { <<r>> : r \in TaskRowShapes } :
       Constructed([t \in Tables |-> IF t = "tasks" THEN rows ELSE <<>>], Len(rows))

TasksNext ==
  \/ LoadStart
  \/ \E i \in 1..MaxOps, errors \in FailsOnly("tasks") : JoinedServed(i, errors)
  \/ \E i \in 1..MaxOps : OneServed(i, NoError)
  \/ LoadResolve
  \/ \E data \in TaskInputs : addTask(data)
  \/ \E id \in EditedIds : toggleTaskComplete(id)
  \/ \E i \in 1..MaxOps, error \in Outcomes : WriteServed(i, error)
  \/ \E i \in 1..MaxOps : FirstResolves(i)
  \/ \E i \in 1..MaxOps : SecondResolves(i)

(* Properties: the two remote tables the component may be constructed over *)

ListingRow(id) ==
  [id |-> id, name |-> "p", status |-> "active", type |-> "house", address |-> "s", price |-> "250",
   bedrooms |-> "2", bathrooms |-> "1", size |-> "80", coordinates |-> Null,
   image_urls |-> "[img]", energy_class |-> Null, pets_allowed |-> "false", created_at |-> "t1"]
LegacyRow(id) ==
  [id |-> id, name |-> "q", status |-> "active", type |-> "house", address |-> "s", price |-> "100",
   bedrooms |-> "2", bathrooms |-> "1", size |-> "80", images |-> "[img]", createdat |-> "t1"]

PropsInit ==
  /\ ExecInit
  /\ \E l \in {<<>>, <<ListingRow("1")>>} :
       \E g \in {<<>>, <<LegacyRow(ToString(Len(l) + 1))>>} :
         Constructed([t \in Tables |-> IF t = "listings" THEN l
                                       ELSE IF t = "properties" THEN g ELSE <<>>],
                     Len(l) + Len(g))

PropsNext ==
  \/ LoadStart
  \/ \E i \in 1..MaxOps : JoinedServed(i, AllSucceed)
  \/ \E i \in 1..MaxOps, error \in LoadOutcomes : OneServed(i, error)
  \/ LoadResolve
  \/ \E data \in PropertyInputs : addProperty(data)
  \/ \E id \in EditedIds : deleteProperty(id)
  \/ \E i \in 1..MaxOps : WriteServed(i, NoError)
  \/ \E i \in 1..MaxOps : DirectResolves(i)

-----------------------------------------------------------------------------
(* Session shell: the page loaded over what the local storage may hold *)

ShellInit ==
  /\ ExecInit
  /\ coll = [e \in Entities |-> <<>>]
  /\ remote = [t \in Tables |-> <<>>]
  /\ nextId = 1
  /\ ops = <<>>
  /\ propertyTable = "listings"
  /\ loading = TRUE
  /\ loads = <<>>
  /\ last = [error |-> NoError, ret |-> NoResponse, type |-> "init", op |-> NoPayload]
  /\ resolved = "none"
  /\ \E st \in InitialStorages : ShellConstructed(st)

\* the views the user goes to: one every role may see, one that the admin and
\* the owner may see, one that only the admin may see
Visited == {"dashboard", "finance", "leads"}

ShellNext ==
  \/ \E fault \in StorageFaults : Startup(fault)
  \/ RoleGate
  \/ \E view \in Visited : Navigate(view)
  \/ \E r \in Roles : SelectRole(r)
  \/ \E email \in {Undefined, "u@x"}, metaRole \in MetaRoles : SignIn(email, metaRole)
  \/ \E i \in 1..MaxSyncs, res \in LookupResponses : ProfileResolves(i, res)
  \/ \E i \in 1..MaxSyncs, res \in LookupResponses : UsersResolves(i, res)
  \/ SignOut
  \/ ReloadEvent
  \/ \E failed \in BOOLEAN : FetchReads(failed)
  \/ FetchResolves
  \/ Restart

-----------------------------------------------------------------------------
(* The tools and settings views: the page is loaded, the user signs in, the *)
(* role sync and the data load end, and the views are used                  *)

\* the local storage of a first visit, and of a visit after a renter's
ToolsStorages ==
  { st \in InitialStorages :
      \/ \A k \in StorageKeys : st[k] = Absent
      \/ /\ st[APP_CACHE_VERSION_KEY] = Stored(APP_CACHE_VERSION)
         /\ st["eburon_role"] = Stored("renter")
         /\ st["eburon_settings"] = Absent }

\* the lookups of the role sync succeed, with a row or without one
ToolsLookups == { res \in LookupResponses : res.error.isNull }

ToolsInit ==
  /\ ExecInit
  /\ coll = [e \in Entities |-> <<>>]
  /\ remote = [t \in Tables |-> <<>>]
  /\ nextId = 1
  /\ ops = <<>>
  /\ propertyTable = "listings"
  /\ loading = TRUE
  /\ loads = <<>>
  /\ last = [error |-> NoError, ret |-> NoResponse, type |-> "init", op |-> NoPayload]
  /\ resolved = "none"
  /\ \E st \in ToolsStorages : ShellConstructed(st)

ToolsNext ==
  \/ \E fault \in StorageFaults : Startup(fault)
  \/ RoleGate
  \/ \E view \in {"tools", "settings"} : Navigate(view)
  \/ \E metaRole \in MetaRoles : ~SignedIn /\ SignIn("u@x", metaRole)
  \/ \E i \in 1..MaxSyncs, res \in ToolsLookups : ProfileResolves(i, res)
  \/ \E i \in 1..MaxSyncs, res \in ToolsLookups : UsersResolves(i, res)
  \/ \E fault \in StorageFaults : ClearCacheEvent(fault)
  \/ \E newSettings \in SettingsForms : updateSettings(newSettings)
  \/ \E failed \in BOOLEAN : FetchReads(failed)
  \/ FetchResolves
  \/ \E i \in 1..MaxOps : JoinedServed(i, AllSucceed)
  \/ \E i \in 1..MaxOps : OneServed(i, NoError)
  \/ LoadResolve

-----------------------------------------------------------------------------
(* Session: sign-out and sign-in while loads and lead handlers are in flight *)

LeadRow(id) ==
  [id |-> id, name |-> "a", email |-> "a@x", phone |-> "", status |-> "new", source |-> "",
   notes |-> "", lastcontact |-> "t1", createdat |-> "t1"]

\* the user has no profile row: the role stays the cached one
SessionLookups == { r \in LookupResponses : r.data = NullRow /\ r # [error |-> RelationMissing, data |-> NullRow] }

SessionInit ==
  /\ ExecInit
  /\ \E rows \in {<<>>, <<LeadRow("1")>>} :
       Constructed([t \in Tables |-> IF t = "leads" THEN rows ELSE <<>>], Len(rows))

SessionNext ==
  \/ \E i \in 1..MaxOps : JoinedServed(i, AllSucceed)
  \/ \E i \in 1..MaxOps : OneServed(i, NoError)
  \/ LoadResolve
  \/ \E data \in LeadInputs : addLead(data)
  \/ \E i \in 1..MaxOps, error \in Outcomes : WriteServed(i, error)
  \/ \E i \in 1..MaxOps : FirstResolves(i)
  \/ \E i \in 1..MaxOps : SecondResolves(i)
  \/ SignOut
  \/ SignIn("u@x", Undefined)
  \/ \E i \in 1..MaxSyncs, res \in SessionLookups : ProfileResolves(i, res)
  \/ \E i \in 1..MaxSyncs, res \in SessionLookups : UsersResolves(i, res)

-----------------------------------------------------------------------------
(* Concurrent mutations: leads or messages loaded, several handlers in flight *)

MessageRow(id) ==
  [id |-> id, email |-> "s@x", date |-> "t1", read |-> "false", sender |-> "s", subject |-> "",
   body |-> "", starred |-> "false"]

\* two patches of a lead that both set the status
MergePatches == { [status |-> "contacted", notes |-> "n"], [status |-> "lost"] }

\* the store after the load of two leads, or of two messages
MergeInit ==
  /\ ExecInit
  /\ \E loaded \in {"leads", "messages"} :
       LET rows == [t \in Tables |->
                     IF t # loaded THEN <<>>
                     ELSE IF t = "leads" THEN <<LeadRow("1"), LeadRow("2")>>
                     ELSE <<MessageRow("1"), MessageRow("2")>>]
       IN /\ coll = [e \in Entities |-> IF e \in JoinedTables THEN Loaded(e, rows[e]) ELSE <<>>]
          /\ remote = rows
  /\ nextId = 3
  /\ ops = <<>>
  /\ propertyTable = "listings"
  /\ loading = FALSE
  /\ loads = <<>>
  /\ last = [error |-> NoError, ret |-> NoResponse, type |-> "init", op |-> NoPayload]
  /\ resolved = "listings"
  /\ ShellSettled

MergeNext ==
  \/ \E id \in {"1", "2"}, data \in MergePatches : updateLead(id, data)
  \/ \E id \in {"1", "2"} : deleteLead(id)
  \/ \E id \in {"1", "2"}, data \in MessagePatches : updateMessage(id, data)
  \/ \E id \in {"1", "2"} : markMessageRead(id)
  \/ \E id \in {"1", "2"} : deleteMessage(id)
  \/ StoreResolve

-----------------------------------------------------------------------------
(* Loads, reloads, adds and removes when every remote call succeeds *)

\* the ids of the records a view shows: it offers the delete of these
Shown(e) == { coll[e][i].id : i \in DOMAIN coll[e] }

SyncNext ==
  \/ LoadStart
  \/ \E i \in 1..MaxOps : JoinedServed(i, AllSucceed)
  \/ \E i \in 1..MaxOps : OneServed(i, NoError)
  \/ LoadResolve
  \/ \E data \in LeadInputs : addLead(data)
  \/ \E id \in Shown("leads") : deleteLead(id)
  \/ \E data \in PropertyInputs : addProperty(data)
  \/ \E id \in Shown("properties") : deleteProperty(id)
  \/ \E i \in 1..MaxOps : WriteServed(i, NoError)
  \/ \E i \in 1..MaxOps : FirstResolves(i)
  \/ \E i \in 1..MaxOps : DirectResolves(i)

-----------------------------------------------------------------------------
(* Deletes: a collection loaded with one or two rows, ids present and absent *)

\* the rows a table may hold when the deletes start
DeleteRows(t) ==
  IF t = "leads" THEN {<<LeadRow("1")>>, <<LeadRow("1"), LeadRow("2")>>}
  ELSE IF t = "listings" THEN {<<ListingRow("1")>>, <<ListingRow("1"), ListingRow("2")>>}
  ELSE {<<LowerTaskRow("false", Null)>>}

\* the store after the load of one table
DeleteInit ==
  /\ ExecInit
  /\ \E loaded \in {"leads", "listings", "tasks"} : \E held \in DeleteRows(loaded) :
       LET rows == [t \in Tables |-> IF t = loaded THEN held ELSE <<>>]
       IN /\ coll = [e \in Entities |->
                      IF e \in JoinedTables THEN Loaded(e, rows[e])
                      ELSE LoadedProperties(rows["listings"])]
          /\ remote = rows
          /\ nextId = Len(held) + 1
  /\ ops = <<>>
  /\ propertyTable = "listings"
  /\ loading = FALSE
  /\ loads = <<>>
  /\ last = [error |-> NoError, ret |-> NoResponse, type |-> "init", op |-> NoPayload]
  /\ resolved = "listings"
  /\ ShellSettled

DeleteNext ==
  \/ \E id \in Ids : deleteLead(id)
  \/ \E id \in Ids : deleteProperty(id)
  \/ \E id \in Ids : deleteTask(id)
  \/ \E i \in 1..MaxOps, error \in {NoError, NetworkError} : WriteServed(i, error)
  \/ \E i \in 1..MaxOps : DirectResolves(i)

-----------------------------------------------------------------------------
(* Reload: one table holds two rows, the collection holds an older row *)

TransactionRow(id, date, createdat) ==
  [id |-> id, description |-> "x", category |-> Null, date |-> date, type |-> "income",
   amount |-> "100", method |-> Null, reference |-> Null, createdat |-> createdat]
EventRow(id, date, starttime) ==
  [id |-> id, title |-> "e", description |-> Null, date |-> date, color |-> "blue",
   duration |-> "30m", createdat |-> "t1", starttime |-> starttime, endtime |-> "11:00"]

\* a row of the table with the two values its sort looks at
SortRow(t, id, a, b) ==
  IF t = "leads" THEN [LeadRow(id) EXCEPT !.createdat = a]
  ELSE IF t = "tasks" THEN [LowerTaskRow("false", Null) EXCEPT !.id = id, !.createdat = a]
  ELSE IF t = "events" THEN EventRow(id, b, IF a = "t1" THEN "09:00" ELSE "10:00")
  ELSE TransactionRow(id, b, a)

\* the store loaded earlier, over a table that held the row "0" then and holds
\* the rows "1" and "2" now
ReloadInit ==
  /\ ExecInit
  /\ \E t \in {"leads", "tasks", "events", "transactions"} :
       \E a1, a2 \in {"t1", "t2"} : \E b1, b2 \in {"d1", "d2"} :
         /\ remote = [x \in Tables |->
                        IF x = t THEN <<SortRow(t, "1", a1, b1), SortRow(t, "2", a2, b2)>>
                        ELSE <<>>]
         /\ coll = [e \in Entities |->
                      IF e = t THEN Loaded(e, <<SortRow(t, "0", "t1", "d1")>>) ELSE <<>>]
  /\ nextId = 3
  /\ ops = <<>>
  /\ propertyTable = "listings"
  /\ loading = FALSE
  /\ loads = <<>>
  /\ last = [error |-> NoError, ret |-> NoResponse, type |-> "init", op |-> NoPayload]
  /\ resolved = "listings"
  /\ ShellSettled

ReloadNext ==
  \/ LoadStart
  \/ \E i \in 1..MaxOps : JoinedServed(i, AllSucceed)
  \/ \E i \in 1..MaxOps, error \in LoadOutcomes : OneServed(i, error)
  \/ LoadResolve

-----------------------------------------------------------------------------
(* Adds after a load: one table holds one row, which the collection has loaded *)

AddsInit ==
  /\ ExecInit
  /\ \E t \in {"leads", "tasks", "events", "transactions"} :
       \E a \in {"t1", "t2"}, b \in {"d1", "d2"} :
         /\ remote = [x \in Tables |-> IF x = t THEN <<SortRow(t, "1", a, b)>> ELSE <<>>]
         /\ coll = [e \in Entities |-> IF e = t THEN Loaded(e, <<SortRow(t, "1", a, b)>>) ELSE <<>>]
  /\ nextId = 2
  /\ ops = <<>>
  /\ propertyTable = "listings"
  /\ loading = FALSE
  /\ loads = <<>>
  /\ last = [error |-> NoError, ret |-> NoResponse, type |-> "init", op |-> NoPayload]
  /\ resolved = "listings"
  /\ ShellSettled

AddsNext ==
  \/ \E data \in LeadInputs : addLead(data)
  \/ \E data \in TaskInputs : addTask(data)
  \/ \E data \in EventInputs, date \in {"d1", "d2"}, startTime \in {"09:00", "10:00"} :
       addEvent([data EXCEPT !.date = date, !.startTime = startTime])
  \/ \E data \in TransactionInputs : addTransaction(data)
  \/ \E i \in 1..MaxOps, error \in Outcomes : WriteServed(i, error)
  \/ \E i \in 1..MaxOps : FirstResolves(i)
  \/ \E i \in 1..MaxOps : SecondResolves(i)

-----------------------------------------------------------------------------
(* The auth gate: initSession and the onAuthStateChange listener *)

\* the sessions the authentication collaborator may hold
CollabSessions == {NoSession} \cup { Session("u@x", metaRole) : metaRole \in MetaRoles }

\* the component mounted over a remote store with one lead: getSession is
\* pending and the listener is registered
AuthInit ==
  /\ ExecInit
  /\ coll = [e \in Entities |-> <<>>]
  /\ remote = [t \in Tables |-> IF t = "leads" THEN <<LeadRow("1")>> ELSE <<>>]
  /\ nextId = 2
  /\ ops = <<>>
  /\ propertyTable = "listings"
  /\ loading = TRUE
  /\ loads = <<>>
  /\ last = [error |-> NoError, ret |-> NoResponse, type |-> "init", op |-> NoPayload]
  /\ resolved = "none"
  /\ storage = [k \in StorageKeys |->
                 IF k = APP_CACHE_VERSION_KEY THEN Stored(APP_CACHE_VERSION)
                 ELSE IF k = "eburon_role" THEN Stored("admin")
                 ELSE Stored([defaultSettings EXCEPT !.role = roleLabelMap("admin")])]
  /\ settings = [defaultSettings EXCEPT !.role = roleLabelMap("admin")]
  /\ role = "admin"
  /\ activeView = "dashboard"
  /\ session = NoSession
  /\ nonce = 0
  /\ gateDue = FALSE
  /\ sync = SyncIdle
  /\ mounted = TRUE
  /\ \E held \in CollabSessions : auth = Pending(held)

AuthNext ==
  \/ \E failed \in BOOLEAN : FetchReads(failed)
  \/ FetchResolves
  \/ \E metaRole \in MetaRoles : SignIn("u@x", metaRole)
  \/ SignOut
  \/ RoleGate
  \/ \E i \in 1..MaxSyncs, res \in SessionLookups : ProfileResolves(i, res)
  \/ \E i \in 1..MaxSyncs, res \in SessionLookups : UsersResolves(i, res)
  \/ \E i \in 1..MaxOps : JoinedServed(i, AllSucceed)
  \/ \E i \in 1..MaxOps : OneServed(i, NoError)
  \/ LoadResolve

-----------------------------------------------------------------------------
(* Naming variants: one table holds one row, written in one of three spellings *)

Styles == {"camel", "lower", "snake"}

\* the key of a camel-case field in a lower-case-concatenated and in a snake_case row
LowerKey(k) ==
  CASE k = "lastContact" -> "lastcontact" [] k = "createdAt" -> "createdat"
    [] k = "dueDate" -> "duedate" [] k = "completedAt" -> "completedat"
    [] k = "startTime" -> "starttime" [] k = "endTime" -> "endtime"
    [] k = "energyClass" -> "energyclass" [] k = "petsAllowed" -> "petsallowed"
    [] OTHER -> k
SnakeKey(k) ==
  CASE k = "lastContact" -> "last_contact" [] k = "createdAt" -> "created_at"
    [] k = "dueDate" -> "due_date" [] k = "completedAt" -> "completed_at"
    [] k = "startTime" -> "start_time" [] k = "endTime" -> "end_time"
    [] k = "energyClass" -> "energy_class" [] k = "petsAllowed" -> "pets_allowed"
    [] OTHER -> k
KeyIn(style, k) == IF style = "lower" THEN LowerKey(k) ELSE IF style = "snake" THEN SnakeKey(k) ELSE k

\* the row with every key written in the style
Respell(row, style) ==
  [j \in { KeyIn(style, k) : k \in DOMAIN row } |->
     row[CHOOSE k \in DOMAIN row : KeyIn(style, k) = j]]

\* rows with camel-case keys: the fields that have naming variants take a value or null
CamelRows(e) ==
  IF e = "leads" THEN
    { [id |-> "1", name |-> "a", email |-> "a@x", phone |-> "", status |-> "new", source |-> "",
       notes |-> "", lastContact |-> x, createdAt |-> y] : x \in {"t2", Null, ""}, y \in {"t1", Null} }
  ELSE IF e = "tasks" THEN
    { [id |-> "1", createdAt |-> y, title |-> "t", description |-> "", dueDate |-> x,
       priority |-> "medium", category |-> "General", completed |-> "true", completedAt |-> z] :
        x \in {"t2", Null}, y \in {"t1", Null}, z \in {"t3", Null} }
  ELSE IF e = "events" THEN
    { [id |-> "1", createdAt |-> y, title |-> "e", description |-> "", date |-> "d1", startTime |-> x,
       endTime |-> z, color |-> "blue", duration |-> "30m"] :
        x \in {"10:00", Null}, y \in {"t1", Null}, z \in {"11:00", Null} }
  ELSE IF e = "transactions" THEN
    { [id |-> "1", createdAt |-> y, description |-> "x", category |-> "", date |-> "d1",
       type |-> "income", amount |-> "100", method |-> "", reference |-> Null] : y \in {"t1", Null} }
  ELSE
    { [id |-> "1", name |-> "p", status |-> "active", createdAt |-> y, type |-> "house", address |-> "s",
       price |-> "250", bedrooms |-> "2", bathrooms |-> "1", size |-> "80", images |-> "[img]",
       energyClass |-> x, petsAllowed |-> z, coordinates |-> Null] :
        x \in {"A", Null}, y \in {"t1", Null}, z \in {"true", "false"} }

\* the table fetchAllData reads the entity from, and its normalizer
TableRead(e) == IF e = "properties" THEN "listings" ELSE e
Normalized(e, row) ==
  CASE e = "leads" -> mapLeadRow(row)
    [] e = "tasks" -> mapTaskRow(row)
    [] e = "events" -> mapEventRow(row)
    [] e = "transactions" -> mapTransactionRow(row)
    [] OTHER -> mapListingToProperty(row)

NormInit ==
  /\ ExecInit
  /\ \E e \in Entities \ {"messages"} : \E row \in CamelRows(e), style \in Styles :
       Constructed([t \in Tables |-> IF t = TableRead(e) THEN <<Respell(row, style)>> ELSE <<>>], 1)

NormNext ==
  \/ LoadStart
  \/ \E i \in 1..MaxOps : JoinedServed(i, AllSucceed)
  \/ \E i \in 1..MaxOps : OneServed(i, NoError)
  \/ LoadResolve

-----------------------------------------------------------------------------
(* Precedence: one row carries a field under several of its keys at once *)

\* the fields of an entity that are read through more than one key
VariantFields(e) ==
  CASE e = "leads" -> {"lastContact", "createdAt"}
    [] e = "tasks" -> {"dueDate", "completedAt", "createdAt"}
    [] e = "events" -> {"startTime", "endTime", "createdAt"}
    [] e = "transactions" -> {"createdAt"}
    [] OTHER -> {"images", "energyClass", "petsAllowed", "createdAt"}

\* the keys of a field, in the order the contract gives them
KeysOf(f) ==
  IF f = "images" THEN <<"images", "image_urls">> ELSE <<f, LowerKey(f), SnakeKey(f)>>

\* the value the row holds under the i-th key of the field
ValueAt(i) == <<"t1", "t2", "t3">>[i]

\* a row of the entity without any of the variant fields
BaseRow(e) ==
  LET r == CHOOSE r \in CamelRows(e) : TRUE
  IN [k \in DOMAIN r \ VariantFields(e) |-> r[k]]

\* the row that holds the field under the keys numbered in present, each with its own value
MixedRow(e, f, present) ==
  [k \in DOMAIN BaseRow(e) \cup { KeysOf(f)[i] : i \in present } |->
     IF k \in DOMAIN BaseRow(e) THEN BaseRow(e)[k]
     ELSE ValueAt(CHOOSE i \in present : KeysOf(f)[i] = k)]

PrecedenceInit ==
  /\ ExecInit
  /\ \E e \in Entities \ {"messages"} : \E f \in VariantFields(e) :
       \E present \in SUBSET (DOMAIN KeysOf(f)) :
         Constructed([t \in Tables |-> IF t = TableRead(e) THEN <<MixedRow(e, f, present)>> ELSE <<>>], 1)

-----------------------------------------------------------------------------
(* Toggles: the tasks table holds one row, which the collection has loaded *)

ToggleInit ==
  /\ ExecInit
  /\ \E r \in TaskRowShapes :
       /\ remote = [t \in Tables |-> IF t = "tasks" THEN <<r>> ELSE <<>>]
       /\ coll = [e \in Entities |-> IF e = "tasks" THEN Loaded(e, <<r>>) ELSE <<>>]
  /\ nextId = 2
  /\ ops = <<>>
  /\ propertyTable = "listings"
  /\ loading = FALSE
  /\ loads = <<>>
  /\ last = [error |-> NoError, ret |-> NoResponse, type |-> "init", op |-> NoPayload]
  /\ resolved = "listings"
  /\ ShellSettled

ToggleNext ==
  \/ \E id \in Ids : toggleTaskComplete(id)
  \/ \E i \in 1..MaxOps, error \in Outcomes : WriteServed(i, error)
  \/ \E i \in 1..MaxOps : FirstResolves(i)
  \/ \E i \in 1..MaxOps : SecondResolves(i)

-----------------------------------------------------------------------------
(* A second user: u@x has loaded one lead, then b@x signs in on the same page *)

\* the selects of the loads started for b@x: the leads select fails, the other
\* ones fail or succeed
SwitchAnswers ==
  { errors \in [JoinedTables -> {NoError, NetworkError}] : ~errors["leads"].isNull }

SwitchInit ==
  /\ ExecInit
  /\ remote = [t \in Tables |-> IF t = "leads" THEN <<LeadRow("1")>> ELSE <<>>]
  /\ coll = [e \in Entities |-> Loaded(e, remote[e])]
  /\ nextId = 2
  /\ ops = <<>>
  /\ propertyTable = "listings"
  /\ loading = FALSE
  /\ loads = <<>>
  /\ last = [error |-> NoError, ret |-> NoResponse, type |-> "init", op |-> NoPayload]
  /\ resolved = "none"
  /\ ShellSettled

SwitchNext ==
  \/ SignOut
  \/ SignIn("b@x", Undefined)
  \/ \E i \in 1..MaxSyncs, res \in SessionLookups : ProfileResolves(i, res)
  \/ \E i \in 1..MaxSyncs, res \in SessionLookups : UsersResolves(i, res)
  \/ \E i \in 1..MaxOps, errors \in SwitchAnswers : JoinedServed(i, errors)
  \/ \E i \in 1..MaxOps, error \in {NoError, NetworkError} : OneServed(i, error)
  \/ LoadResolve

-----------------------------------------------------------------------------
(* Role words: the sync reads role strings in every spelling *)

RoleWords ==
  << <<"admin", "ADMIN", "Admin">>, <<"broker", "BROKER", "Broker">>,
     <<"agent", "AGENT", "Agent">>, <<"owner", "OWNER", "Owner">>,
     <<"maintenance", "MAINTENANCE", "Maintenance">>,
     <<"contractor", "CONTRACTOR", "Contractor">>,
     <<"renter", "RENTER", "Renter">>, <<"tenant", "TENANT", "Tenant">> >>

\* the role strings of the profile rows and of the session metadata: the eight
\* role words in each spelling, no value, and strings that are no role word
RoleInputs ==
  UNION { Spellings(RoleWords[i][1], RoleWords[i][2], RoleWords[i][3]) : i \in DOMAIN RoleWords }
    \cup {Undefined, Null, "", " ", "manager", " Manager ", "superuser"}

RoleLookups ==
  { [error |-> NoError, data |-> UserRow(r)] : r \in RoleInputs } \cup
  { [error |-> NoError, data |-> NullRow] }

\* a user has signed in: the first load is in flight and the sync waits for
\* the profile row
RolesInit ==
  /\ ExecInit
  /\ coll = [e \in Entities |-> <<>>]
  /\ remote = [t \in Tables |-> <<>>]
  /\ nextId = 1
  /\ ops = <<>>
  /\ propertyTable = "listings"
  /\ loading = TRUE
  /\ loads = <<NewLoad>>
  /\ last = [error |-> NoError, ret |-> NoResponse, type |-> "init", op |-> NoPayload]
  /\ resolved = "none"
  /\ storage = [k \in StorageKeys |->
                 IF k = APP_CACHE_VERSION_KEY THEN Stored(APP_CACHE_VERSION)
                 ELSE IF k = "eburon_role" THEN Stored("admin")
                 ELSE Stored([defaultSettings EXCEPT !.role = roleLabelMap("admin")])]
  /\ settings = [defaultSettings EXCEPT !.role = roleLabelMap("admin")]
  /\ role = "admin"
  /\ activeView = "dashboard"
  /\ nonce = 0
  /\ gateDue = FALSE
  /\ mounted = TRUE
  /\ auth = GateOpen
  /\ \E metaRole \in RoleInputs :
       /\ session = Session("u@x", metaRole)
       /\ sync = [running |-> <<Run(role, session)>>, done |-> NoSync]

RolesNext ==
  \/ \E i \in 1..MaxSyncs, res \in RoleLookups : ProfileResolves(i, res)
  \/ \E i \in 1..MaxSyncs, res \in RoleLookups : UsersResolves(i, res)
  \/ RoleGate
  \/ SignOut
  \/ \E metaRole \in MetaRoles : SignIn("u@x", metaRole)

-----------------------------------------------------------------------------
(* Specifications *)

Init == ExecInit /\ StoreInit

\* the executor alone
SpecExec == Init /\ [][ExecNext]_vars

\* the entity store's mutations (no load)
SpecStore == Init /\ [][StoreNext]_vars

\* the session shell: startup, roles, views, settings and the local cache
SpecShell == ShellInit /\ [][ShellNext]_vars

\* the tools and settings views of a page that is signed in and loaded
SpecTools == ToolsInit /\ [][ToolsNext]_vars

\* sign-out and sign-in around the loads and the lead handlers
SpecSession == SessionInit /\ [][SessionNext]_vars

\* updates and deletes of leads and messages in flight together
SpecMerge == MergeInit /\ [][MergeNext]_vars

\* loads, reloads, adds and removes with a remote store that never fails
SpecSync == PropsInit /\ [][SyncNext]_vars

\* deletes of leads, properties and tasks
SpecDelete == DeleteInit /\ [][DeleteNext]_vars

\* a reload over rows in any order of their sort keys
SpecReload == ReloadInit /\ [][ReloadNext]_vars

\* adds of leads, tasks, events and transactions to a loaded collection
SpecAdds == AddsInit /\ [][AddsNext]_vars

\* the auth gate: the session fetch, the change notifications and the loads
SpecAuth == AuthInit /\ [][AuthNext]_vars

\* a load over a row written with camel-case, lower-case or snake_case keys
SpecNorm == NormInit /\ [][NormNext]_vars

\* a load over a row that carries one field under any of its keys
SpecPrecedence == PrecedenceInit /\ [][NormNext]_vars

\* toggleTaskComplete called again and again on a loaded task
SpecToggle == ToggleInit /\ [][ToggleNext]_vars

\* u@x signs out and b@x signs in; the leads select of every load fails
SpecSwitch == SwitchInit /\ [][SwitchNext]_vars

\* the role sync over role strings in every spelling
SpecRoles == RolesInit /\ [][RolesNext]_vars

\* the tasks collection under loads, reloads and the task handlers
SpecTasks == TasksInit /\ [][TasksNext]_vars

\* the property collection and the table resolver under loads, reloads and the property handlers
SpecProps == PropsInit /\ [][PropsNext]_vars

-----------------------------------------------------------------------------
(* Properties of the fallback write executor (SpecExec) *)

\* the substring occurs in the text, in any letter case
Has(text, t) == text[t] \in {"lower", "mixed"}

\* C1: when the primary write fails with a schema-cache-miss error and the
\* fallback write succeeds, exactly two writes were sent, the second with the
\* fallback mapping, and the caller receives the second write's result.
C1_FallbackResultReturned ==
  (/\ exec.pc = "done"
   /\ ~exec.first.error.isNull
   /\ isSchemaCacheColumnError(exec.first.error)
   /\ exec.second.error.isNull)
  => /\ exec.calls = <<"primary", "fallback">>
     /\ exec.ret = [error |-> NoError, data |-> exec.second.data]

C1_Witness ==
  /\ exec.pc = "done" /\ exec.fn = "insert"
  /\ exec.calls = <<"primary", "fallback">>
  /\ isSchemaCacheColumnError(exec.first.error)
  /\ exec.ret.error.isNull /\ exec.ret.data \in ExecRows

\* C2: when the primary write fails with an error that is not classified as
\* schema-cache-miss, exactly one write was sent, the fallback mapping is
\* never sent, and the caller receives that first error.
C2_OtherErrorReturnedAtOnce ==
  (/\ exec.pc \notin {"idle", "first"}
   /\ ~exec.first.error.isNull
   /\ ~isSchemaCacheColumnError(exec.first.error))
  => /\ exec.pc = "done"
     /\ exec.calls = <<"primary">>
     /\ exec.ret = [error |-> exec.first.error, data |-> NullRow]

C2_Witness ==
  /\ exec.pc = "done" /\ exec.fn = "update"
  /\ exec.calls = <<"primary">>
  /\ ~exec.ret.error.isNull
  /\ Has(exec.ret.error.message, "column")

\* C10: a failed write is classified as schema-cache-miss, and so retried,
\* exactly when its message (or its details), letter case ignored, contains
\* "column" together with "schema cache", "could not find" or "does not
\* exist".
ClaimedRule(text) ==
  Has(text, "column") /\ (Has(text, "schema cache") \/ Has(text, "could not find") \/ Has(text, "does not exist"))

C10_ClaimedClassification ==
  exec.pc \in {"second", "done"} =>
    ((Len(exec.calls) = 2) <=>
       (~exec.first.error.isNull /\ (ClaimedRule(exec.first.error.message) \/ ClaimedRule(exec.first.error.details))))

-----------------------------------------------------------------------------
(* Properties of the entity store's mutations (SpecStore) *)

\* C3: when both writes of the executor fail, the handler ends without a third
\* write, the caller is given the second error, and no collection changes.
C3_BothFailNothingChanges ==
  [][(last'.type = "done" /\ Len(last'.op.calls) = 2 /\ ~last'.error.isNull)
       => /\ coll' = coll
          /\ last'.ret.error = last'.error
          /\ last'.op.calls = <<"primary", "fallback">>
          /\ Len(ops') = Len(ops) - 1
          /\ \A i \in DOMAIN ops' : Len(ops'[i].calls) <= 2]_vars

C3_Witness ==
  /\ last.type = "done" /\ last.op.kind = "updateLead"
  /\ Len(last.op.calls) = 2
  /\ last.error = SchemaCacheMiss /\ last.ret.error = SchemaCacheMiss
  /\ Find(coll["leads"], last.op.id) # <<>>

\* C4: a collection changes only in the step in which a write of a handler of
\* that entity resolves with success: not when the handler is issued, not
\* while it waits, and not when its write resolves with an error.
C4_ChangeOnlyOnConfirmedWrite ==
  [][\A e \in Entities :
       coll'[e] # coll[e] =>
         /\ last'.type = "done"
         /\ last'.op.entity = e
         /\ last'.error.isNull /\ last'.ret.error.isNull]_vars

C4_Witness ==
  /\ last.type = "done" /\ last.op.kind = "deleteProperty"
  /\ last.error.isNull
  /\ coll["properties"] = <<>> /\ remote["listings"] = <<>>
  /\ nextId > 1


-----------------------------------------------------------------------------
(* Tasks: completed and completedAt *)

Defined(v) == v \notin {Undefined, Null}

\* C5 (as claimed): every task held in the tasks collection has completed =
\* true if and only if its completedAt is defined, after any sequence of load,
\* addTask, toggleTaskComplete and reload, whatever the shape of the remote rows.
C5_CompletedIffCompletedAt ==
  \A i \in DOMAIN coll["tasks"] :
    (coll["tasks"][i].completed = "true") <=> Defined(coll["tasks"][i].completedAt)

-----------------------------------------------------------------------------
(* Table resolver *)

\* the collection holds the rows of the response, one record per row, in order
SameRows(props, data) ==
  /\ Len(props) = Len(data)
  /\ \A i \in DOMAIN data : props[i].id = data[i].id /\ props[i].name = data[i].name

SucceededEmpty(res) == res.error.isNull /\ Len(res.data) = 0

\* the error says that the relation does not exist, in its message or its details
SaysRelationMissing(error) ==
  \/ (Has(error.message, "relation") /\ Has(error.message, "does not exist"))
  \/ (Has(error.details, "relation") /\ Has(error.details, "does not exist"))

\* C6: when a load ends and the listings query returned rows, the table is
\* 'listings' and the collection holds exactly those rows; when the listings
\* query returned no rows and the legacy query returned rows, the table is
\* 'properties' and the collection holds exactly the legacy rows (never both).
C6_TableWithRowsIsSelected ==
  [][last'.type = "loaded" =>
       LET listingsRes == last'.op.listingsRes
           legacyRes == last'.op.legacyRes IN
         /\ HasRows(listingsRes) =>
              /\ propertyTable' = "listings"
              /\ SameRows(coll'["properties"], listingsRes.data)
         /\ (SucceededEmpty(listingsRes) /\ last'.op.legacyAsked /\ HasRows(legacyRes)) =>
              /\ propertyTable' = "properties"
              /\ SameRows(coll'["properties"], legacyRes.data)]_vars

\* a reload has ended with the legacy rows in place of the listings rows held before
C6_Witness ==
  /\ last.type = "loaded" /\ last.op.legacyAsked
  /\ SucceededEmpty(last.op.listingsRes) /\ HasRows(last.op.legacyRes)
  /\ propertyTable = "properties" /\ resolved = "listings"
  /\ SameRows(coll["properties"], last.op.legacyRes.data)

\* C7: when a load ends and neither query returned rows: if the listings query
\* succeeded, the table is 'listings' and the collection is empty, whether the
\* legacy query succeeded or failed; if the listings query failed because the
\* relation does not exist and the legacy query succeeded, the table is
\* 'properties' and the collection holds the (empty) legacy result.
C7_NoRowsSelection ==
  [][(last'.type = "loaded" /\ last'.op.legacyAsked /\ ~HasRows(last'.op.legacyRes)) =>
       LET listingsRes == last'.op.listingsRes
           legacyRes == last'.op.legacyRes IN
         /\ SucceededEmpty(listingsRes) =>
              /\ propertyTable' = "listings"
              /\ coll'["properties"] = <<>>
         /\ (~listingsRes.error.isNull /\ SaysRelationMissing(listingsRes.error)
               /\ legacyRes.error.isNull) =>
              /\ propertyTable' = "properties"
              /\ SameRows(coll'["properties"], legacyRes.data)]_vars

\* a load has ended on the legacy table, which is empty, the listings relation
\* being reported missing in the details of the error
C7_Witness ==
  /\ last.type = "loaded" /\ last.op.legacyAsked
  /\ last.op.listingsRes.error = RelationMissingInDetails
  /\ SucceededEmpty(last.op.legacyRes)
  /\ propertyTable = "properties" /\ coll["properties"] = <<>>

\* both queries failed, neither because the relation does not exist
BothFailedOtherwise(loaded) ==
  /\ loaded.legacyAsked
  /\ ~loaded.listingsRes.error.isNull /\ ~SaysRelationMissing(loaded.listingsRes.error)
  /\ ~loaded.legacyRes.error.isNull /\ ~SaysRelationMissing(loaded.legacyRes.error)

\* C8 (as claimed): when a load, the first or a later one, ends with both the
\* listings query and the legacy query failed for a reason other than a missing
\* relation, the property collection is empty and the session is usable.
C8_BothFailCollectionEmpty ==
  [][(last'.type = "loaded" /\ BothFailedOtherwise(last'.op)) =>
       (coll'["properties"] = <<>> /\ ~loading')]_vars

\* C9 (as claimed): once the resolver has selected a table, the selection stays
\* the same for the rest of the session.
C9_SelectionNeverChanges == resolved # "none" => propertyTable = resolved

-----------------------------------------------------------------------------
(* Role gate (SpecShell) *)

\* the view is one the role may see
Permitted(r, view) == includesView(roleViews(r), view)

\* C11: for every role and view, a view that is not permitted is sent by the
\* gate to the first entry of the role's list, that entry is permitted, and
\* whenever the gate has been evaluated the active view is one the current
\* role may see, whatever role changes and navigation came before.
C11_RoleGate ==
  /\ (mounted /\ ~gateDue) => Permitted(role, activeView)
  /\ last.type = "gate" =>
       /\ Permitted(role, activeView)
       /\ \A r \in Roles : \A view \in Views :
            /\ ~Permitted(r, view) => roleGate(r, view) = roleViews(r)[1]
            /\ Permitted(r, view) => roleGate(r, view) = view
            /\ Permitted(r, roleViews(r)[1])
            /\ roleGate(r, roleGate(r, view)) = roleGate(r, view)

\* the gate has just sent a maintenance user from the finance view to the dashboard
C11_Witness ==
  /\ last.type = "gate"
  /\ last.from = "finance"
  /\ role = "maintenance"
  /\ activeView = "dashboard"

-----------------------------------------------------------------------------
(* Role sync (SpecShell) *)

\* the lookup has failed or has returned no row
NoRow(response) == ~response.error.isNull \/ response.data = NullRow

\* the precedence of the role sources, each read through normalizeUserRole
ClaimedRole(userRow, metaRoleRaw, cached) ==
  IF userRow # NullRow /\ Truthy(Get(userRow, "role")) THEN normalizeUserRole(userRow.role)
  ELSE IF Truthy(metaRoleRaw) THEN normalizeUserRole(metaRoleRaw)
  ELSE IF cached \in Roles THEN cached
  ELSE "admin"

\* the place of a suspended sync in the order of its lookups
Rank(run) == (IF run.table = "users" THEN 2 ELSE 0) + (IF run.lookup = "byEmail" THEN 1 ELSE 0)

\* the step delivers the answer of a lookup and the sync goes on to its next lookup
SyncGoesOn ==
  /\ last'.type = "shell"
  /\ \E i \in DOMAIN sync.running \cap DOMAIN sync'.running : sync'.running[i] # sync.running[i]

\* C12: the role set by the sync is the role of the profile row found if it
\* has one, else the role of the session metadata, else the role cached when
\* the sync started, else 'admin'; a lookup that fails or returns no row
\* yields no row, so that the next source is used, and the sync still ends
\* with the session in place.
C12_RolePrecedence ==
  [][ /\ (last'.type = "synced" /\ last'.userRow = NullRow) =>
           \A byId, byEmail \in LookupResponses : \A email \in {Undefined, "u@x"} :
             (NoRow(byId) /\ NoRow(byEmail)) => fetchUserRow(byId, byEmail, email) = NullRow
      /\ last'.type = "synced" =>
           /\ \A r \in Roles : normalizeUserRole(r) = r
           /\ Syncing
           /\ role' = ClaimedRole(last'.userRow, last'.run.metaRole, last'.run.role)
           /\ storage'["eburon_role"] = Stored(role')
           /\ session' = session
           /\ mounted'
      /\ SyncGoesOn =>
           /\ role' = role
           /\ \A i \in DOMAIN sync.running \cap DOMAIN sync'.running :
                Rank(sync'.running[i]) >= Rank(sync.running[i])
    ]_vars

\* both lookups have yielded no row and the metadata role has been taken,
\* not the cached one
C12_Witness ==
  /\ sync.done.ended
  /\ sync.done.userRow = NullRow
  /\ ~sync.done.profileFound
  /\ sync.done.metaRole = " Owner "
  /\ sync.done.role = "renter"
  /\ role = "owner"
  /\ SignedIn

-----------------------------------------------------------------------------
(* Cache version guard (SpecShell) *)

\* the persisted marker differs from the constant version
Mismatch == storage[APP_CACHE_VERSION_KEY] # Stored(APP_CACHE_VERSION)

\* C13: when the persisted marker differs from the constant version at
\* startup (and no call of the local storage throws), then after startup the
\* settings are the default settings, the
\* role is 'admin', the view is the dashboard, 'eburon_settings' and
\* 'eburon_role' are absent from the local storage, the marker holds the
\* constant version and the reload has been triggered exactly once.
C13_GuardOnMismatch ==
  [][ (~mounted /\ mounted' /\ Mismatch /\ last'.fault = "none") =>
        /\ settings' = defaultSettings
        /\ role' = "admin"
        /\ activeView' = "dashboard"
        /\ \A k \in APP_CACHE_KEYS : storage'[k] = Absent
        /\ storage'[APP_CACHE_VERSION_KEY] = Stored(APP_CACHE_VERSION)
        /\ nonce' = nonce + 1
    ]_vars

\* the startup just made has handled a mismatch: the state was reset and the
\* reload triggered
Handled == ~mounted /\ mounted' /\ nonce' = nonce + 1

\* C14: a check made when the persisted marker equals the constant version
\* changes nothing (settings, role, view, local storage and reload trigger);
\* a startup that has handled a mismatch leaves a matching marker, and a
\* matching marker keeps matching, so that every later check, of this or a
\* later startup, is such a no-op.
C14_GuardIdempotent ==
  [][ /\ (~mounted /\ ~Mismatch) =>
           \A fault \in StorageFaults : cacheVersionCheck(Shell, fault) = Shell
      /\ ~Mismatch => ~Mismatch'
      /\ Handled => ~Mismatch'
      /\ (~mounted /\ mounted' /\ ~Mismatch) =>
           /\ role' = role /\ activeView' = activeView /\ nonce' = nonce
           /\ \A k \in StorageKeys \ {"eburon_settings"} : storage'[k] = storage[k]
    ]_vars

-----------------------------------------------------------------------------
(* Sign-out (SpecSession) *)

\* C15: between a sign-out and the next sign-in no entity collection and no
\* resolved property table changes: the result of a load or of a mutation
\* that was in flight at the sign-out is discarded.
C15_SignedOutNothingApplied ==
  [][ (session = NoSession /\ session' = NoSession) =>
        (coll' = coll /\ propertyTable' = propertyTable) ]_vars

-----------------------------------------------------------------------------
(* Concurrent mutations (SpecMerge) *)

\* the step confirms the write of a handler: the handler ends without error
Confirms == ops' # ops /\ last'.type = "done" /\ last'.ret.error.isNull

\* C16: confirmations are applied in the order they resolve.  When an update
\* is confirmed, whatever was issued before or after it and is still in
\* flight, the record of its id takes the values of its patch (so that of two
\* updates of one id the one confirmed last decides an overlapping field) and
\* keeps its other fields, and every record of another id, and their order,
\* is as it was; when a delete is confirmed the records of the other ids are
\* as they were.
C16_ConfirmedInResolveOrder ==
  [][ Confirms =>
        LET op == last'.op
            before == coll[op.entity]
            after == coll'[op.entity]
        IN /\ \A e \in Entities \ {op.entity} : coll'[e] = coll[e]
           /\ op.fn = "update" =>
                /\ Len(after) = Len(before)
                /\ \A j \in DOMAIN before :
                     IF before[j].id = op.id
                       THEN /\ \A k \in DOMAIN op.data : after[j][k] = op.data[k]
                            /\ \A k \in DOMAIN before[j] \ DOMAIN op.data : after[j][k] = before[j][k]
                       ELSE after[j] = before[j]
           /\ op.fn = "delete" =>
                after = SelectSeq(before, LAMBDA x : x.id # op.id)
    ]_vars

\* lead 1 was updated by both patches and the patch that sets 'lost' was
\* confirmed last, while lead 2 is as it was loaded
C16_Witness ==
  /\ last.type = "done" /\ last.op.kind = "updateLead" /\ last.ret.error.isNull
  /\ last.op.data = [status |-> "lost"]
  /\ ops = <<>>
  /\ Len(coll["leads"]) = 2
  /\ \E j \in DOMAIN coll["leads"] :
       /\ coll["leads"][j].id = "1"
       /\ coll["leads"][j].status = "lost"
       /\ coll["leads"][j].notes = "n"
  /\ \E j \in DOMAIN coll["leads"] : coll["leads"][j] = mapLeadRow(LeadRow("2"))

-----------------------------------------------------------------------------
(* Local collections against the remote tables (SpecSync) *)

IdsOf(rows) == { rows[i].id : i \in DOMAIN rows }

\* the remote table a collection is read from and written to
TableOf(e) == IF e = "properties" THEN propertyTable ELSE e

\* no load and no handler is in flight
Quiescent == ops = <<>> /\ loads = <<>> /\ ~loading

\* C17: with every remote call succeeding, whenever no load and no mutation
\* is in flight the ids of each local collection are the ids of its remote
\* table, however loads, reloads, adds and removes were interleaved.
C17_QuiescentMatchesRemote ==
  Quiescent => \A e \in Entities : IdsOf(coll[e]) = IdsOf(remote[TableOf(e)])

-----------------------------------------------------------------------------
(* Deletes (SpecDelete) *)

\* C18: when the remote delete reports success, deleting an id the
\* collection does not hold leaves the collection as it is and the handler
\* ends without error; deleting an id it holds removes that record and leaves
\* the other records and their order as they are.
C18_DeleteFrame ==
  [][ (Confirms /\ last'.op.fn = "delete") =>
        LET id == last'.op.id
            before == coll[last'.op.entity]
            after == coll'[last'.op.entity]
        IN /\ id \notin IdsOf(before) => after = before
           /\ id \in IdsOf(before) =>
                \E j \in DOMAIN before :
                  /\ before[j].id = id
                  /\ after = SubSeq(before, 1, j - 1) \o SubSeq(before, j + 1, Len(before))
           /\ Len(ops') = Len(ops) - 1
    ]_vars

\* the delete of lead 2, which the collection did not hold, was confirmed and
\* lead 1 is still there
C18_Witness ==
  /\ last.type = "done" /\ last.op.kind = "deleteLead" /\ last.ret.error.isNull
  /\ last.op.id = "2"
  /\ remote["leads"] = <<LeadRow("1")>>
  /\ coll["leads"] = <<mapLeadRow(LeadRow("1"))>>

-----------------------------------------------------------------------------
(* The add handlers (SpecStore) *)

\* C19: every add, of leads, tasks, events, transactions, properties and
\* messages alike, goes through the fallback executor: an insert rejected
\* with a schema-cache-miss error is retried once with the other payload, and
\* no insert is sent to the remote store directly.
C19_AddsUseTheExecutor ==
  [][ /\ \A i \in DOMAIN ops' : ops'[i].fn = "insert" => ops'[i].stage # "direct"
      /\ ( /\ ops' # ops
           /\ last'.type \in {"done", "retry"}
           /\ last'.op.fn = "insert"
           /\ Len(last'.op.calls) = 1
           /\ isSchemaCacheColumnError(last'.error) )
         => ( /\ last'.type = "retry"
              /\ \E i \in DOMAIN ops' : ops'[i].calls = <<"primary", "fallback">> )
    ]_vars

-----------------------------------------------------------------------------
(* The order of the loaded collections (SpecReload) *)

\* the records are in descending order of their creation time
ByCreatedAtDescending(records) ==
  \A i, j \in DOMAIN records :
    i < j => parseSortableDate(records[i].createdAt) >= parseSortableDate(records[j].createdAt)

\* the events are in ascending order of date, then start time
ByDateAndStartAscending(records) ==
  \A i, j \in DOMAIN records :
    i < j => \/ DateMs(records[i].date) < DateMs(records[j].date)
             \/ /\ DateMs(records[i].date) = DateMs(records[j].date)
                /\ TimeMs(records[i].startTime) <= TimeMs(records[j].startTime)

\* the collection holds one record for each remote row and nothing else
Replaced(e) ==
  /\ Len(coll[e]) = Len(remote[e])
  /\ IdsOf(coll[e]) = IdsOf(remote[e])

\* C20: when the selects of a load have resolved, each collection holds the
\* normalized remote rows and nothing of what it held before, leads, tasks
\* and transactions in descending order of createdAt and events in ascending
\* order of date and start time.
C20_LoadedInOrder ==
  last.type = "joined" =>
    /\ \A e \in JoinedTables : Replaced(e)
    /\ { coll["leads"][i] : i \in DOMAIN coll["leads"] } =
         { mapLeadRow(remote["leads"][i]) : i \in DOMAIN remote["leads"] }
    /\ { coll["tasks"][i] : i \in DOMAIN coll["tasks"] } =
         { mapTaskRow(remote["tasks"][i]) : i \in DOMAIN remote["tasks"] }
    /\ { coll["events"][i] : i \in DOMAIN coll["events"] } =
         { mapEventRow(remote["events"][i]) : i \in DOMAIN remote["events"] }
    /\ { coll["transactions"][i] : i \in DOMAIN coll["transactions"] } =
         { mapTransactionRow(remote["transactions"][i]) : i \in DOMAIN remote["transactions"] }
    /\ ByCreatedAtDescending(coll["leads"])
    /\ ByCreatedAtDescending(coll["tasks"])
    /\ ByCreatedAtDescending(coll["transactions"])
    /\ ByDateAndStartAscending(coll["events"])


-----------------------------------------------------------------------------
(* The place of an added record (SpecAdds) *)

\* the handler of an add has run to its end with a row and no error
AddConfirmed(step) ==
  /\ step.type = "done"
  /\ step.op.fn = "insert"
  /\ step.ret.data # NullRow
  /\ step.ret.error.isNull

\* C21: a successful add puts the normalized returned row at the front of the
\* collection for leads, tasks and transactions; for events the record is
\* added and the collection, loaded in ascending order of date and start
\* time, is still in that order.
C21_AddsKeepTheOrder ==
  [][AddConfirmed(last') =>
       /\ last'.op.entity = "leads" =>
            coll'["leads"] = <<mapLeadRow(last'.ret.data)>> \o coll["leads"]
       /\ last'.op.entity = "tasks" =>
            coll'["tasks"] = <<mapTaskRow(last'.ret.data)>> \o coll["tasks"]
       /\ last'.op.entity = "transactions" =>
            coll'["transactions"] = <<mapTransactionRow(last'.ret.data)>> \o coll["transactions"]
       /\ last'.op.entity = "events" =>
            /\ Len(coll'["events"]) = Len(coll["events"]) + 1
            /\ \E i \in DOMAIN coll'["events"] : coll'["events"][i] = mapEventRow(last'.ret.data)
            /\ ByDateAndStartAscending(coll'["events"])]_vars

-----------------------------------------------------------------------------
(* The loading flag while loads are in flight (SpecSync) *)

\* C22: whenever a run of fetchAllData is still in flight for a signed-in
\* session, the loading flag is true, so that no view is rendered over
\* collections that are partly loaded; this also holds when a second run
\* starts while an earlier one is still in flight.
C22_LoadingWhileALoadIsInFlight ==
  (SignedIn /\ loads # <<>>) => loading

-----------------------------------------------------------------------------
(* The session state machine (SpecAuth) *)

\* what App renders: the spinner while sessionLoading, AuthView without a
\* session, the dashboard with one
Gate ==
  IF auth.sessionLoading THEN "SessionLoading"
  ELSE IF SignedIn THEN "Authenticated"
  ELSE "Unauthenticated"

\* the gate is never re-entered, fetchAllData is started only in steps that
\* lead to or stay in Authenticated, and once SessionLoading is left the gate
\* changes only by a sign-in or a sign-out
GateMoves ==
  /\ Gate' = "SessionLoading" => Gate = "SessionLoading"
  /\ (Gate = "SessionLoading" /\ Gate' # "SessionLoading") => last'.type = "fetched"
  /\ (Gate # "SessionLoading" /\ Gate' # Gate) =>
       /\ last'.type = "shell"
       /\ coll' = coll
       /\ <<Gate, Gate'>> \in {<<"Unauthenticated", "Authenticated">>,
                              <<"Authenticated", "Unauthenticated">>}
  /\ Len(loads') > Len(loads) => Gate' = "Authenticated"

\* C23 as claimed: the gate starts in SessionLoading and leaves it once, to
\* Unauthenticated when the session fetch finds no session or fails and to
\* Authenticated when it finds one; afterwards it changes only by sign-in and
\* sign-out, SessionLoading is never re-entered and loads are issued only in
\* Authenticated.
C23_ClaimedGate ==
  /\ Gate = "SessionLoading"
  /\ [][/\ GateMoves
        /\ last'.type = "fetched" =>
             IF last'.answer.failed \/ last'.answer.session = NoSession
               THEN Gate' = "Unauthenticated"
               ELSE Gate' = "Authenticated"]_vars

\* C23: the gate starts in SessionLoading and leaves it once, when the
\* session fetch resolves: to Authenticated when the fetch finds a session,
\* or fails after a change notification has delivered one, and to
\* Unauthenticated otherwise; afterwards it changes only by sign-in and
\* sign-out, SessionLoading is never re-entered and loads are issued only in
\* Authenticated.
C23_Gate ==
  /\ Gate = "SessionLoading"
  /\ [][/\ GateMoves
        /\ last'.type = "fetched" =>
             IF last'.answer.failed
               THEN Gate' = (IF last'.from = NoSession THEN "Unauthenticated" ELSE "Authenticated")
               ELSE Gate' = (IF last'.answer.session = NoSession
                               THEN "Unauthenticated" ELSE "Authenticated")]_vars

\* the fetch has failed after a notification delivered a session, and the
\* gate is open with that session
C23_Witness ==
  /\ last.type = "fetched"
  /\ last.answer.failed
  /\ last.from # NoSession
  /\ Gate = "Authenticated"

-----------------------------------------------------------------------------
(* The normalizers on naming variants (SpecNorm) *)

\* C24: for leads, tasks, events, transactions and properties, a remote row
\* written with lower-case-concatenated keys or with snake_case keys is
\* normalized to the same record, field for field, as the same row written
\* with camel-case keys.
C24_VariantsGiveTheSameRecord ==
  \A e \in Entities \ {"messages"} : \A row \in CamelRows(e), style \in Styles :
    (remote[TableRead(e)] = <<Respell(row, style)>> /\ coll[e] # <<>>)
      => coll[e] = <<Normalized(e, row)>>

-----------------------------------------------------------------------------
(* The order in which the normalizers read the keys of a field (SpecPrecedence) *)

\* the default of a field none of whose keys is present
DefaultOf(f) ==
  CASE f \in {"createdAt", "dueDate", "lastContact"} -> NowIso
    [] f = "startTime" -> "09:00"
    [] f = "endTime" -> "10:00"
    [] f = "images" -> "[]"
    [] OTHER -> Undefined

\* the value under the first key of the field that the row holds, in the
\* order of the contract
RECURSIVE FirstPresent(_, _, _)
FirstPresent(row, keys, default) ==
  IF keys = <<>> THEN default
  ELSE IF Head(keys) \in DOMAIN row THEN row[Head(keys)]
  ELSE FirstPresent(row, Tail(keys), default)

Claimed(row, f) ==
  FirstPresent(row, KeysOf(f),
               IF f = "lastContact" THEN FirstPresent(row, KeysOf("createdAt"), NowIso)
               ELSE DefaultOf(f))

\* C25: when a remote row carries a field under more than one of its keys,
\* with different values, the normalizer takes the camel-case key first,
\* then the lower-case-concatenated key, then the snake_case key, and the
\* default only when the row has none of them; for the images of a property
\* it takes images before image_urls.
C25_CamelThenLowerThenSnake ==
  \A e \in Entities \ {"messages"} : \A f \in VariantFields(e) :
    (Len(remote[TableRead(e)]) = 1 /\ coll[e] # <<>>)
      => coll[e][1][f] = Claimed(remote[TableRead(e)][1], f)

-----------------------------------------------------------------------------
(* The role during a session (SpecTools) *)

\* the remote identity data of the user give a role: the row found, or the metadata
RemoteRoleGiven ==
  \/ sync.done.userRow # NullRow /\ Truthy(Get(sync.done.userRow, "role"))
  \/ Truthy(sync.done.metaRole)

-----------------------------------------------------------------------------
(* Toggling a task (SpecToggle) *)

\* the handler of a toggleTaskComplete has run to its end without an error
ToggleConfirmed(step) ==
  /\ step.type = "done"
  /\ step.op.kind = "toggleTaskComplete"
  /\ step.ret.error.isNull

\* the remote store accepts the update of the toggleTaskComplete suspended at i
ToggleAccepted(i) ==
  /\ i \in DOMAIN ops /\ i \in DOMAIN ops'
  /\ ops[i].kind = "toggleTaskComplete"
  /\ ops[i].answer = NotServed /\ ops'[i].answer # NotServed
  /\ ops'[i].answer.error.isNull

\* C27: every confirmed toggleTaskComplete inverts the completed flag of the
\* task, in the collection when it is confirmed and in the remote table when
\* its update is accepted, so that two confirmed calls on the same id give
\* back the value before the first call, also when the second call is issued
\* before the first one has resolved.
C27_ConfirmedToggleInverts ==
  [][/\ ToggleConfirmed(last') =>
          Head(Find(coll'["tasks"], last'.op.id)).completed =
            Not(Head(Find(coll["tasks"], last'.op.id)).completed)
     /\ \A i \in 1..MaxOps : ToggleAccepted(i) =>
          ToBoolean(Head(Find(remote'["tasks"], ops[i].id)).completed) =
            Not(Head(Find(remote["tasks"], ops[i].id)).completed)]_vars

-----------------------------------------------------------------------------
(* A second user on the same page (SpecSwitch) *)

\* C28: after u@x has signed out and b@x has signed in, once the load for
\* b@x has finished no collection holds a row loaded or added during the
\* session of u@x. In SpecSwitch the leads select fails in every load of
\* b@x and no lead is added, so every lead of the collection is one of u@x.
C28_NoRowOfTheSessionBefore ==
  (session.email = "b@x" /\ last.type = "loaded" /\ loads = <<>>) => coll["leads"] = <<>>

\* C29: the session the app holds is the most recent one the authentication
\* collaborator delivered: a change notification that arrives before the
\* current-session fetch resolves is not overwritten by the fetch result, so
\* when the fetch has resolved the app is not Authenticated with a session
\* other than the one the collaborator holds.
C29_FetchKeepsTheLaterNotification ==
  [][(last'.type = "fetched" /\ SignedIn') => session' = last'.held]_vars

-----------------------------------------------------------------------------
(* The role words (SpecRoles) *)

\* the role the claim gives to a role string
WordRole ==
  [admin |-> "admin", broker |-> "admin", agent |-> "admin", owner |-> "owner",
   maintenance |-> "maintenance", contractor |-> "maintenance", renter |-> "renter",
   tenant |-> "renter"]

IsWord(raw, i) == raw \in Spellings(RoleWords[i][1], RoleWords[i][2], RoleWords[i][3])

ClaimedNormal(raw) ==
  IF \E i \in DOMAIN RoleWords : IsWord(raw, i)
    THEN WordRole[RoleWords[CHOOSE i \in DOMAIN RoleWords : IsWord(raw, i)][1]]
    ELSE "admin"

ViewSet(r) == { roleViews(r)[i] : i \in DOMAIN roleViews(r) }

\* the string the sync hands to normalizeUserRole
SyncRaw(userRow, metaRoleRaw, cached) ==
  Or(Or(IF userRow = NullRow THEN Undefined ELSE userRow.role, metaRoleRaw), cached)

\* C30: normalizeUserRole returns one of admin, owner, maintenance, renter for
\* every input: an input that is one of the eight role words, in any case and
\* with blanks around, gives the role of that word, and every other input
\* (empty, missing or unrecognized) gives admin, whose permitted views include
\* those of every role. Stated on the role every sync ends with.
C30_NormalizeUserRoleTable ==
  [][last'.type = "synced" =>
       /\ role' \in Roles
       /\ role' = ClaimedNormal(SyncRaw(last'.userRow, last'.run.metaRole, last'.run.role))
       /\ \A r \in Roles : ViewSet(r) \subseteq ViewSet(ClaimedNormal("superuser"))]_vars

\* a sync has ended on a profile row whose role is ' TENANT '
C30_Witness ==
  /\ sync.done.ended
  /\ sync.done.userRow # NullRow
  /\ sync.done.userRow.role = " TENANT "
  /\ role = "renter"
=============================================================================
